---- MODULE Spec2Model ----
(***************************************************************************)
(* Verification model of the Monthly Aggregation & Metrics Engine of       *)
(* smart-expense-forecasting: preprocess_data (main.py) and the two        *)
(* forecast_expenses implementations (main.py, backend/forecast_model.py). *)
(*                                                                         *)
(* Numbers.  A float that holds money is modelled exactly: an amount is an *)
(* integer number of thousandths of the currency unit ("mills"), so that   *)
(* DataFrame.round(2) is a real conversion (to a multiple of 10 mills).    *)
(* Intermediate values of the regression are exact rationals <<n, d>>.     *)
(* Binary floating-point noise below the rounding step is not modelled.    *)
(***************************************************************************)
EXTENDS Integers, Sequences, FiniteSets, TLC

VARIABLES
    df,                \* the transaction table handed to preprocess_data
    monthly_data,      \* what preprocess_data returned (or NotCalled)
    monthly_df,        \* the bucket table handed to forecast_expenses
    periods,           \* the horizon handed to forecast_expenses
    forecast_main,     \* what main.forecast_expenses returned
    forecast_backend,  \* what backend.forecast_model.forecast_expenses returned
    metrics,           \* what calculate_comprehensive_metrics returned
    seasonal_main,     \* what main.calculate_seasonal_trends returned
    seasonal_backend,  \* what backend.forecast_model.calculate_seasonal_trends returned
    insights_main,     \* what main.advanced_ml_analysis returned
    insights_backend,  \* what backend.forecast_model.advanced_ml_analysis returned
    session_state,     \* st.session_state: the keys that are set and their values
    pc,                \* where the current run of main() stands
    run                \* what started the current run and what it has done so far

vars == <<df, monthly_data, monthly_df, periods, forecast_main, forecast_backend,
          metrics, seasonal_main, seasonal_backend, insights_main, insights_backend,
          session_state, pc, run>>

\* The session of the Streamlit application.
sessionVars == <<session_state, pc, run>>

\* The results of the metrics and narrative functions.
reportVars == <<metrics, seasonal_main, seasonal_backend, insights_main, insights_backend>>

(***************************************************************************)
(* Bounds of the model.                                                    *)
(***************************************************************************)
MaxBuckets == 4
MaxPeriods == 3
MaxRows == 3

(***************************************************************************)
(* Exact arithmetic.                                                       *)
(***************************************************************************)
Abs(x) == IF x < 0 THEN -x ELSE x

Min(a, b) == IF a <= b THEN a ELSE b

RECURSIVE GCD(_, _)
GCD(a, b) == IF b = 0 THEN a ELSE GCD(b, a % b)

\* The rational n/d in lowest terms with a positive denominator.
Rat(n, d) ==
    LET g == GCD(Abs(n), Abs(d))
        s == IF d < 0 THEN -1 ELSE 1
    IN  <<(s * n) \div g, (s * d) \div g>>

RInt(n) == <<n, 1>>

\* Sums over the least common denominator and products with the common
\* factors cancelled first keep the intermediate integers small.
RAdd(a, b) ==
    LET g == GCD(a[2], b[2])
    IN  Rat(a[1] * (b[2] \div g) + b[1] * (a[2] \div g), (a[2] \div g) * b[2])
RSub(a, b) == RAdd(a, <<-b[1], b[2]>>)
RMul(a, b) ==
    LET g1 == GCD(Abs(a[1]), b[2])
        g2 == GCD(Abs(b[1]), a[2])
    IN  Rat((a[1] \div g1) * (b[1] \div g2), (a[2] \div g2) * (b[2] \div g1))
RDiv(a, b) == RMul(a, IF b[1] < 0 THEN <<-b[2], -b[1]>> ELSE <<b[2], b[1]>>)

\* a < b, by integer parts and then the reciprocals of the fractional parts.
RECURSIVE RLess(_, _)
RLess(a, b) ==
    LET qa == a[1] \div a[2]
        qb == b[1] \div b[2]
        ra == a[1] - qa * a[2]
        rb == b[1] - qb * b[2]
    IN  IF qa # qb THEN qa < qb
        ELSE IF rb = 0 THEN FALSE
        ELSE IF ra = 0 THEN TRUE
        ELSE RLess(<<b[2], rb>>, <<a[2], ra>>)
RIsZero(a) == a[1] = 0

\* Nearest integer to the rational r, ties to the even neighbour (numpy's rint).
RoundHalfEven(r) ==
    LET q == r[1] \div r[2]
        rem == r[1] - q * r[2]
    IN  IF 2 * rem < r[2] THEN q
        ELSE IF 2 * rem > r[2] THEN q + 1
        ELSE IF q % 2 = 0 THEN q ELSE q + 1

RECURSIVE SumSeq(_)
SumSeq(s) == IF s = <<>> THEN 0 ELSE Head(s) + SumSeq(Tail(s))

RECURSIVE RSumSeq(_)
RSumSeq(s) == IF s = <<>> THEN RInt(0) ELSE RAdd(Head(s), RSumSeq(Tail(s)))

\* numpy.mean of a sequence of integers.
np_mean(s) == Rat(SumSeq(s), Len(s))

\* round(2): a value in mills to the nearest hundredth of the unit (10 mills).
Round2(r) == 10 * RoundHalfEven(RDiv(r, RInt(10)))

(***************************************************************************)
(* Calendar.  A pandas Timestamp at day resolution.                        *)
(***************************************************************************)
Timestamp(y, m, d) == [year |-> y, month |-> m, day |-> d]

IsLeap(y) == (y % 4 = 0 /\ y % 100 # 0) \/ y % 400 = 0

DaysInMonth(y, m) ==
    IF m = 2 THEN (IF IsLeap(y) THEN 29 ELSE 28)
    ELSE IF m \in {4, 6, 9, 11} THEN 30 ELSE 31

\* Months since year 0 of a timestamp: the order of calendar months.
MonthOrd(ts) == ts.year * 12 + (ts.month - 1)

\* Variant: the offset short by one month (months=i instead of months=i+1).
DateOffsetMonths_OffByOne(ts, k) ==
    LET idx == MonthOrd(ts) + k - 1
        y == idx \div 12
        m == (idx % 12) + 1
    IN  Timestamp(y, m, Min(ts.day, DaysInMonth(y, m)))

\* ts + pd.DateOffset(months=k): same day of the month, clipped to its length.
DateOffsetMonths(ts, k) ==
    LET idx == MonthOrd(ts) + k
        y == idx \div 12
        m == (idx % 12) + 1
    IN  Timestamp(y, m, Min(ts.day, DaysInMonth(y, m)))

\* The month end on or after ts (the first tick of freq='M' from ts).
MonthEndOnOrAfter(ts) == Timestamp(ts.year, ts.month, DaysInMonth(ts.year, ts.month))

\* pd.date_range(start, periods=p, freq='M'): p consecutive month ends
\* (pandas releases in which the alias 'M' is the month-end frequency).
date_range_M(start, p) ==
    LET first == MonthEndOnOrAfter(start)
    IN  [k \in 1..p |->
            LET idx == MonthOrd(first) + (k - 1)
                y == idx \div 12
                m == (idx % 12) + 1
            IN  Timestamp(y, m, DaysInMonth(y, m))]

(***************************************************************************)
(* Results of a call: the rows of the returned DataFrame, or an exception  *)
(* leaving the function.                                                   *)
(***************************************************************************)
NotCalled == [called |-> FALSE, raised |-> FALSE, rows |-> <<>>]

\* No metrics or narrative function has been called.
ReportsNotCalled ==
    /\ metrics = [called |-> FALSE, raised |-> FALSE, snapshot |-> <<>>]
    /\ seasonal_main = [called |-> FALSE, raised |-> FALSE, text |-> "", peak |-> 0, low |-> 0]
    /\ seasonal_backend = [called |-> FALSE, raised |-> FALSE, text |-> "", peak |-> 0, low |-> 0]
    /\ insights_main = [called |-> FALSE, raised |-> FALSE, insights |-> <<>>]
    /\ insights_backend = [called |-> FALSE, raised |-> FALSE, insights |-> <<>>]

\* Python's None.
None == "None"

\* What a run of main() records about itself: the widget the user acted on
\* and its new value, whether handle_pdf_generation was invoked, and the
\* entries a reset removed before the run (a rerun after 'Reset Analysis').
RunOf(event, arg, removed) ==
    [event |-> event, arg |-> arg, pdf_invoked |-> FALSE, removed |-> removed]

\* No run of main() has started.
SessionNotStarted ==
    /\ session_state = <<>>
    /\ pc = "not started"
    /\ run = RunOf("none", None, <<>>)

Returned(rows) == [called |-> TRUE, raised |-> FALSE, rows |-> rows]
Raised == [called |-> TRUE, raised |-> TRUE, rows |-> <<>>]

\* try: <body> except Exception as e: print(...); return pd.DataFrame()
\* The three functions each have their own handler of this shape.
catch_Exception(r) == IF r.raised THEN Returned(<<>>) ELSE r

\* Variant: no handler, the exception leaves the function.
forecast_except_Missing(r) == r

forecast_except(r) == catch_Exception(r)

backend_forecast_except(r) == catch_Exception(r)

\* Variant: no handler, the exception leaves the function.
preprocess_except_Missing(r) == r

preprocess_except(r) == catch_Exception(r)

(***************************************************************************)
(* Data frames.  A table is its set of column names and its rows in order. *)
(***************************************************************************)
DataFrame(cols, rows) == [columns |-> cols, rows |-> rows]

\* Order of timestamps (Series.max / sorting of period keys).
TsLess(a, b) ==
    \/ MonthOrd(a) < MonthOrd(b)
    \/ MonthOrd(a) = MonthOrd(b) /\ a.day < b.day

\* Series.max() of a non-empty sequence of timestamps.
SeriesMax(s) == CHOOSE t \in {s[i] : i \in 1..Len(s)} :
                    \A u \in {s[i] : i \in 1..Len(s)} : ~TsLess(t, u)

Column(frame, name) == [i \in 1..Len(frame.rows) |-> frame.rows[i][name]]

(***************************************************************************)
(* forecast_expenses, main.py                                              *)
(***************************************************************************)
\* Variant: the stricter guard len(monthly_df) < 3.
MinBucketsMain_Three == 2 + 1

\* if len(monthly_df) < 2: return pd.DataFrame()
MinBucketsMain == 2

\* np.array(range(n)): the regression's x values 0..n-1.
np_range(lo, hi) == [i \in 1..(IF hi > lo THEN hi - lo ELSE 0) |-> lo + i - 1]

\* sklearn LinearRegression().fit(X, y) with one feature: centre X and y,
\* least squares on the centred data, intercept from the means.
LinearRegression_fit(X, y) ==
    LET X_offset == np_mean(X)
        y_offset == np_mean(y)
        Xc == [i \in 1..Len(X) |-> RSub(RInt(X[i]), X_offset)]
        yc == [i \in 1..Len(y) |-> RSub(RInt(y[i]), y_offset)]
        sxy == RSumSeq([i \in 1..Len(X) |-> RMul(Xc[i], yc[i])])
        sxx == RSumSeq([i \in 1..Len(X) |-> RMul(Xc[i], Xc[i])])
        coef == IF RIsZero(sxx) THEN RInt(0) ELSE RDiv(sxy, sxx)
    IN  [coef_ |-> coef, intercept_ |-> RSub(y_offset, RMul(X_offset, coef))]

\* lr_model.predict(future_X)
LinearRegression_predict(model, future_X) ==
    [k \in 1..Len(future_X) |->
        RAdd(RMul(model.coef_, RInt(future_X[k])), model.intercept_)]

\* Variant: no clamp.
clip_lower0_Identity(r) == r

\* Variant: a negative prediction is mirrored instead of clamped.
clip_lower0_Abs(r) == IF RLess(r, RInt(0)) THEN RSub(RInt(0), r) ELSE r

\* Series.clip(lower=0) / np.maximum(x, 0) of one value.
clip_lower0(r) == IF RLess(r, RInt(0)) THEN RInt(0) ELSE r

\* Variant: the future indices start at the last fitted index.
future_index_FromLast(n, p) == np_range(n - 1, n - 1 + p)

\* range(len(monthly_df), len(monthly_df) + periods)
future_index(n, p) == np_range(n, n + p)

\* Variant: the x values are the months elapsed since the first bucket.
regression_X_Elapsed(mdf) ==
    [i \in 1..Len(mdf.rows) |->
        MonthOrd(mdf.rows[i].YearMonth) - MonthOrd(mdf.rows[1].YearMonth)]

\* X = np.array(range(len(monthly_df))): the positions, not the months.
regression_X(mdf) == np_range(0, Len(mdf.rows))

\* The body of the try block of main.forecast_expenses.
forecast_expenses_body(mdf, p) ==
    IF Len(mdf.rows) < MinBucketsMain THEN Returned(<<>>)
    ELSE IF "Total_Amount" \notin mdf.columns THEN Raised      \* KeyError
    ELSE IF "YearMonth" \notin mdf.columns THEN Raised         \* KeyError
    ELSE IF p.type # "int" THEN Raised                         \* TypeError in range(periods)
    ELSE IF p.val <= 0 THEN Raised                             \* predict on 0 samples: ValueError
    ELSE
        LET n == Len(mdf.rows)
            X == regression_X(mdf)
            y == Column(mdf, "Total_Amount")
            lr_model == LinearRegression_fit(X, y)
            last_date == SeriesMax(Column(mdf, "YearMonth"))
            future_dates == [k \in 1..p.val |-> DateOffsetMonths(last_date, k)]
            future_X == future_index(n, p.val)
            lr_forecast == LinearRegression_predict(lr_model, future_X)
        IN  Returned([k \in 1..p.val |->
                [Date |-> future_dates[k],
                 Forecast |-> Round2(clip_lower0(lr_forecast[k]))]])

forecast_expenses(mdf, p) == forecast_except(forecast_expenses_body(mdf, p))

(***************************************************************************)
(* forecast_expenses, backend/forecast_model.py                            *)
(***************************************************************************)
\* Variant: the backend asks for one bucket more.
MinBucketsBackend_Four == 3 + 1

\* if len(monthly_data) < 3: return pd.DataFrame()
MinBucketsBackend == 3

\* The body of the try block of backend.forecast_model.forecast_expenses.
backend_forecast_expenses_body(md, p) ==
    IF Len(md.rows) < MinBucketsBackend THEN Returned(<<>>)
    ELSE IF "Total_Amount" \notin md.columns THEN Raised       \* KeyError
    ELSE IF p.type # "int" THEN Raised                         \* TypeError in range(...)
    ELSE IF "YearMonth" \notin md.columns THEN Raised          \* KeyError
    ELSE IF p.val < 0 THEN Raised                              \* date_range: ValueError
    ELSE
        LET n == Len(md.rows)
            X == regression_X(md)
            y == Column(md, "Total_Amount")
            x_mean == np_mean(X)
            y_mean == np_mean(y)
            numerator == RSumSeq([i \in 1..n |->
                            RMul(RSub(RInt(X[i]), x_mean), RSub(RInt(y[i]), y_mean))])
            denominator == RSumSeq([i \in 1..n |->
                            RMul(RSub(RInt(X[i]), x_mean), RSub(RInt(X[i]), x_mean))])
            slope == IF RIsZero(denominator) THEN RInt(0) ELSE RDiv(numerator, denominator)
            intercept == RSub(y_mean, RMul(slope, x_mean))
            future_X == future_index(n, p.val)
            predictions == [k \in 1..p.val |->
                            clip_lower0(RAdd(RMul(slope, RInt(future_X[k])), intercept))]
            last_date == md.rows[n].YearMonth
            future_dates == date_range_M(DateOffsetMonths(last_date, 1), p.val)
        IN  Returned([k \in 1..p.val |->
                [Date |-> future_dates[k], Forecast |-> Round2(predictions[k])]])

backend_forecast_expenses(md, p) == backend_forecast_except(backend_forecast_expenses_body(md, p))

(***************************************************************************)
(* Inputs of the forecast specification: bucket tables as preprocess_data  *)
(* shapes them (first-of-month timestamps in increasing order, Month_Num   *)
(* 1..N, totals rounded to hundredths), tables lacking a column, and       *)
(* horizons that are or are not integers.                                  *)
(***************************************************************************)
Totals == {-100000, 0, 100000, 200000, 300000, 400000}

TimestampOfOrd(o) == Timestamp(o \div 12, (o % 12) + 1, 1)

\* <<first month, step in months>>: consecutive months from October 2023,
\* and every other month from June 2023 (calendar gaps).
CalendarChoices == {<<2023 * 12 + 9, 1>>, <<2023 * 12 + 5, 2>>}

Buckets(cal, tot) ==
    [i \in 1..Len(tot) |->
        [YearMonth |-> TimestampOfOrd(cal[1] + (i - 1) * cal[2]),
         Total_Amount |-> tot[i],
         Month_Num |-> i]]

ColumnSets == {{"YearMonth", "Total_Amount", "Month_Num"},
               {"YearMonth", "Month_Num"},
               {"Total_Amount", "Month_Num"}}

BucketTables ==
    {DataFrame(cols, Buckets(cal, tot)) :
        cols \in ColumnSets, cal \in CalendarChoices,
        tot \in UNION {[1..n -> Totals] : n \in 0..MaxBuckets}}

PeriodInputs ==
    {[type |-> "int", val |-> v] : v \in 0..MaxPeriods} \cup {[type |-> "str", val |-> 0]}

EmptyFrame == DataFrame({}, <<>>)

InitForecast ==
    /\ df = EmptyFrame
    /\ monthly_data = NotCalled
    /\ monthly_df \in BucketTables
    /\ periods \in PeriodInputs
    /\ forecast_main = NotCalled
    /\ forecast_backend = NotCalled
    /\ ReportsNotCalled
    /\ SessionNotStarted

CallForecastMain ==
    /\ ~forecast_main.called
    /\ forecast_main' = forecast_expenses(monthly_df, periods)
    /\ UNCHANGED <<sessionVars, df, monthly_data, monthly_df, periods, forecast_backend, reportVars>>

CallForecastBackend ==
    /\ ~forecast_backend.called
    /\ forecast_backend' = backend_forecast_expenses(monthly_df, periods)
    /\ UNCHANGED <<sessionVars, df, monthly_data, monthly_df, periods, forecast_main, reportVars>>

NextForecast == CallForecastMain \/ CallForecastBackend

SpecForecast == InitForecast /\ [][NextForecast]_vars

(***************************************************************************)
(* Claims about forecast_expenses (checked under SpecForecast).            *)
(***************************************************************************)
FullColumns(frame) == {"YearMonth", "Total_Amount"} \subseteq frame.columns

\* A usable call: the table has the columns and the horizon is a positive integer.
ValidForecastInput == FullColumns(monthly_df) /\ periods.type = "int" /\ periods.val >= 1

NumBuckets == Len(monthly_df.rows)

ForecastValues(res) == [k \in 1..Len(res.rows) |-> res.rows[k].Forecast]

\* C1 as stated: both implementations return `periods` entries from 2 buckets
\* on and an empty series for 0 or 1 buckets.
C1_Original ==
    \A res \in {forecast_main, forecast_backend} :
        (res.called /\ ValidForecastInput) =>
            Len(res.rows) = (IF NumBuckets >= 2 THEN periods.val ELSE 0)

\* C1 amended: main.forecast_expenses returns exactly `periods` entries from
\* 2 buckets on and none for 0 or 1 buckets; the backend implementation
\* returns exactly `periods` entries from 3 buckets on and none for 0, 1 or 2.
C1_ForecastLength ==
    /\ (forecast_main.called /\ ValidForecastInput) =>
            Len(forecast_main.rows) = (IF NumBuckets >= 2 THEN periods.val ELSE 0)
    /\ (forecast_backend.called /\ ValidForecastInput) =>
            Len(forecast_backend.rows) = (IF NumBuckets >= 3 THEN periods.val ELSE 0)

C1_Witness ==
    /\ ValidForecastInput /\ NumBuckets = 2
    /\ forecast_main.called /\ Len(forecast_main.rows) = periods.val
    /\ forecast_backend.called /\ Len(forecast_backend.rows) = 0

\* The fitted line of the claims, by the normal equations over x = 0..N-1:
\* slope = (N*Sxy - Sx*Sy) / (N*Sxx - Sx^2), intercept = (Sy - slope*Sx) / N.
OLS_Slope(y) ==
    LET N == Len(y)
        Sx == SumSeq([i \in 1..N |-> i - 1])
        Sy == SumSeq(y)
        Sxy == SumSeq([i \in 1..N |-> (i - 1) * y[i]])
        Sxx == SumSeq([i \in 1..N |-> (i - 1) * (i - 1)])
    IN  Rat(N * Sxy - Sx * Sy, N * Sxx - Sx * Sx)

OLS_Intercept(y) ==
    LET N == Len(y)
        Sx == SumSeq([i \in 1..N |-> i - 1])
    IN  RDiv(RSub(RInt(SumSeq(y)), RMul(OLS_Slope(y), RInt(Sx))), RInt(N))

\* slope*(N+k) + intercept, k = 0, 1, ...
OLS_Line(y, k) == RAdd(RMul(OLS_Slope(y), RInt(Len(y) + k)), OLS_Intercept(y))

BucketTotals == Column(monthly_df, "Total_Amount")

\* C2: every Forecast value returned by either implementation is >= 0,
\* whatever the bucket totals (negative, decreasing) and the horizon.
C2_ForecastNonNegative ==
    \A res \in {forecast_main, forecast_backend} :
        res.called => \A k \in 1..Len(res.rows) : res.rows[k].Forecast >= 0

\* Both implementations have answered a table whose fitted line is below 0
\* at some forecast step.
C2_Witness ==
    /\ forecast_main.called /\ forecast_backend.called
    /\ Len(forecast_main.rows) >= 1 /\ Len(forecast_backend.rows) >= 1
    /\ \E k \in 1..Len(forecast_main.rows) :
          /\ RLess(OLS_Line(BucketTotals, k - 1), RInt(0))
          /\ forecast_main.rows[k].Forecast = 0
          /\ forecast_backend.rows[k].Forecast = 0

\* max(0, slope*(N+k) + intercept) rounded to 2 decimals.
C3_Expected(y, k) ==
    LET v == OLS_Line(y, k)
    IN  Round2(IF RLess(v, RInt(0)) THEN RInt(0) ELSE v)

ScenarioC == BucketTotals = <<100000, 200000, 300000, 400000>> /\ periods.val = 2

\* C3: the k-th forecast value (k = 0..periods-1) of a returned series equals
\* max(0, slope*(N+k) + intercept) rounded to 2 decimals for the OLS fit of the
\* totals against 0..N-1; totals [100,200,300,400] with periods = 2 give
\* [500, 600].
C3_ForecastValue ==
    \A res \in {forecast_main, forecast_backend} :
        res.called =>
            /\ \A k \in 1..Len(res.rows) :
                  res.rows[k].Forecast = C3_Expected(BucketTotals, k - 1)
            /\ (ValidForecastInput /\ ScenarioC) =>
                  ForecastValues(res) = <<500000, 600000>>

C3_Witness ==
    /\ ValidForecastInput /\ ScenarioC
    /\ ForecastValues(forecast_main) = <<500000, 600000>>
    /\ ForecastValues(forecast_backend) = <<500000, 600000>>

\* A step of the computation fails: a column is missing from a table long
\* enough to be read, or the horizon is not an integer.
C4_StepFails(minBuckets) ==
    /\ NumBuckets >= minBuckets
    /\ (~FullColumns(monthly_df) \/ periods.type # "int")

\* C4: forecast_expenses never raises to its caller, and returns an empty
\* series whenever a step of the computation fails.
C4_NeverRaises ==
    /\ forecast_main.called =>
          /\ ~forecast_main.raised
          /\ C4_StepFails(MinBucketsMain) => forecast_main.rows = <<>>
    /\ forecast_backend.called =>
          /\ ~forecast_backend.raised
          /\ C4_StepFails(MinBucketsBackend) => forecast_backend.rows = <<>>

C4_Witness ==
    /\ forecast_main.called /\ forecast_backend.called
    /\ C4_StepFails(MinBucketsBackend)
    /\ "Total_Amount" \notin monthly_df.columns
    /\ backend_forecast_expenses_body(monthly_df, periods).raised
    /\ forecast_expenses_body(monthly_df, periods).raised

\* C5: entry k (k = 0..periods-1) of a returned series is labelled with the
\* calendar month k+1 months after the last historical bucket's month.
C5_ConsecutiveMonths ==
    \A res \in {forecast_main, forecast_backend} :
        res.called =>
            \A k \in 1..Len(res.rows) :
                MonthOrd(res.rows[k].Date)
                    = MonthOrd(monthly_df.rows[NumBuckets].YearMonth) + k

\* A history with calendar gaps whose forecast runs over the turn of the year.
C5_Witness ==
    /\ forecast_main.called /\ forecast_backend.called
    /\ Len(forecast_main.rows) >= 2 /\ Len(forecast_backend.rows) >= 2
    /\ MonthOrd(monthly_df.rows[2].YearMonth) > MonthOrd(monthly_df.rows[1].YearMonth) + 1
    /\ \E k \in 1..(Len(forecast_main.rows) - 1) :
          /\ forecast_main.rows[k].Date.year < forecast_main.rows[k + 1].Date.year
          /\ forecast_backend.rows[k].Date.year < forecast_backend.rows[k + 1].Date.year

(***************************************************************************)
(* preprocess_data, main.py                                                *)
(***************************************************************************)
\* A transaction table: its columns, the dtype of its Date column and its
\* rows [Date |-> Timestamp, Amount |-> mills] in file order.
TransactionTable(cols, dtype, rows) ==
    [columns |-> cols, date_dtype |-> dtype, rows |-> rows]

\* Series.dt.to_period('M'): the day of the month is dropped.
to_period_M(ts) == [year |-> ts.year, month |-> ts.month]

\* PeriodIndex.to_timestamp(): the first day of the period.
to_timestamp(per) == Timestamp(per.year, per.month, 1)

PeriodLess(a, b) == a.year < b.year \/ (a.year = b.year /\ a.month < b.month)

\* Variant: the distinct group keys in order of first appearance
\* (groupby(sort=False)).
RECURSIVE FirstAppearance(_, _)
FirstAppearance(keys, seen) ==
    IF keys = <<>> THEN <<>>
    ELSE IF Head(keys) \in seen THEN FirstAppearance(Tail(keys), seen)
    ELSE <<Head(keys)>> \o FirstAppearance(Tail(keys), seen \cup {Head(keys)})

group_keys_Unsorted(keys) == FirstAppearance(keys, {})

\* The distinct group keys in ascending order (groupby sorts its keys).
RECURSIVE SortedKeys(_)
SortedKeys(S) ==
    IF S = {} THEN <<>>
    ELSE LET lo == CHOOSE k \in S : \A o \in S : ~PeriodLess(o, k)
         IN  <<lo>> \o SortedKeys(S \ {lo})

group_keys(keys) == SortedKeys({keys[i] : i \in 1..Len(keys)})

\* The Amount values of the rows whose period is `key`, in row order.
RECURSIVE GroupAmounts(_, _)
GroupAmounts(rows, key) ==
    IF rows = <<>> THEN <<>>
    ELSE IF to_period_M(Head(rows).Date) = key
         THEN <<Head(rows).Amount>> \o GroupAmounts(Tail(rows), key)
         ELSE GroupAmounts(Tail(rows), key)

SeqMin(s) == CHOOSE v \in {s[i] : i \in 1..Len(s)} : \A i \in 1..Len(s) : v <= s[i]
SeqMax(s) == CHOOSE v \in {s[i] : i \in 1..Len(s)} : \A i \in 1..Len(s) : v >= s[i]

\* Variant: the aggregates kept at full precision.
agg_round_None(r) == RoundHalfEven(r)

\* DataFrame.round(2) on the aggregates.
agg_round(r) == Round2(r)

(* Floats that may be infinite or NaN (the growth columns).                *)
FNum(r) == [kind |-> "num", val |-> r]
FInf == [kind |-> "inf", val |-> RInt(0)]
FNegInf == [kind |-> "-inf", val |-> RInt(0)]
FNaN == [kind |-> "nan", val |-> RInt(0)]

\* a / b in IEEE arithmetic, a and b finite integers.
FDivInt(a, b) ==
    IF b # 0 THEN FNum(Rat(a, b))
    ELSE IF a > 0 THEN FInf
    ELSE IF a < 0 THEN FNegInf
    ELSE FNaN

\* x + r and x * r for a finite rational r (r > 0 for the product).
FAddRat(x, r) == IF x.kind = "num" THEN FNum(RAdd(x.val, r)) ELSE x
FMulPos(x, r) == IF x.kind = "num" THEN FNum(RMul(x.val, r)) ELSE x

\* Variant: the change taken relative to the current value.
pct_change_OfCurrent(s, n) ==
    [i \in 1..Len(s) |->
        IF i <= n THEN FNaN ELSE FAddRat(FDivInt(s[i - n], s[i]), RInt(-1))]

\* Series.pct_change(periods=n): s[i] / s[i-n] - 1, NaN for the first n.
pct_change(s, n) ==
    [i \in 1..Len(s) |->
        IF i <= n THEN FNaN ELSE FAddRat(FDivInt(s[i], s[i - n]), RInt(-1))]

\* Variant: range(len(monthly_data)).
month_num_ZeroBased(i) == i - 1

\* range(1, len(monthly_data) + 1)
month_num(i) == i

\* The body of the try block of preprocess_data.  Amount_Std (a sample
\* standard deviation, irrational in general, read by no function of the
\* repository) is left out of the rows.
preprocess_data_body(t) ==
    IF "Date" \notin t.columns THEN Raised                     \* KeyError
    ELSE IF t.date_dtype # "datetime64" THEN Raised            \* .dt: AttributeError
    ELSE IF "Amount" \notin t.columns THEN Raised              \* agg: KeyError
    ELSE
        LET YearMonth == [i \in 1..Len(t.rows) |-> to_period_M(t.rows[i].Date)]
            keys == group_keys(YearMonth)
            n == Len(keys)
            amounts == [g \in 1..n |-> GroupAmounts(t.rows, keys[g])]
            total == [g \in 1..n |-> agg_round(RInt(SumSeq(amounts[g])))]
            growth == [g \in 1..n |-> FMulPos(pct_change(total, 1)[g], RInt(100))]
        IN  Returned([g \in 1..n |->
                [YearMonth |-> to_timestamp(keys[g]),
                 Total_Amount |-> total[g],
                 Average_Amount |-> agg_round(np_mean(amounts[g])),
                 Transaction_Count |-> Len(amounts[g]),
                 Min_Amount |-> agg_round(RInt(SeqMin(amounts[g]))),
                 Max_Amount |-> agg_round(RInt(SeqMax(amounts[g]))),
                 Month_Num |-> month_num(g),
                 YoY_Growth |-> growth[g],
                 MoM_Growth |-> growth[g]]])

preprocess_data(t) == preprocess_except(preprocess_data_body(t))

(***************************************************************************)
(* Inputs of the aggregation specification: tables of up to MaxRows valid  *)
(* rows in any order (two days of November 2023, December 2023, February   *)
(* 2024: a calendar gap), amounts with and without sub-cent digits, and    *)
(* the empty tables a caller can hand over.                                *)
(***************************************************************************)
Dates == {Timestamp(2023, 11, 5), Timestamp(2023, 11, 20),
          Timestamp(2023, 12, 31), Timestamp(2024, 2, 29)}

Amounts == {-1000, 0, 4, 1000}

TransactionRows == [Date : Dates, Amount : Amounts]

TransactionTables ==
    {TransactionTable({"Date", "Amount"}, "datetime64", rows) :
        rows \in UNION {[1..n -> TransactionRows] : n \in 0..MaxRows}}
    \cup
    {TransactionTable(cols, dtype, <<>>) :
        cols \in SUBSET {"Date", "Amount"}, dtype \in {"datetime64", "object"}}

InitAggregate ==
    /\ df \in TransactionTables
    /\ monthly_data = NotCalled
    /\ monthly_df = EmptyFrame
    /\ periods = [type |-> "int", val |-> 0]
    /\ forecast_main = NotCalled
    /\ forecast_backend = NotCalled
    /\ ReportsNotCalled
    /\ SessionNotStarted

CallPreprocess ==
    /\ ~monthly_data.called
    /\ monthly_data' = preprocess_data(df)
    /\ UNCHANGED <<sessionVars, df, monthly_df, periods, forecast_main, forecast_backend, reportVars>>

NextAggregate == CallPreprocess

SpecAggregate == InitAggregate /\ [][NextAggregate]_vars

(***************************************************************************)
(* Claims about preprocess_data (checked under SpecAggregate).             *)
(***************************************************************************)
BucketMonth(g) == MonthOrd(monthly_data.rows[g].YearMonth)

NumOut == Len(monthly_data.rows)

\* The sum of Amount over the input rows whose date lies in month `ord`.
RECURSIVE AmountInMonth(_, _)
AmountInMonth(rows, ord) ==
    IF rows = <<>> THEN 0
    ELSE (IF MonthOrd(Head(rows).Date) = ord THEN Head(rows).Amount ELSE 0)
         + AmountInMonth(Tail(rows), ord)

InputAmountSum == SumSeq([i \in 1..Len(df.rows) |-> df.rows[i].Amount])

OutputTotalSum == SumSeq([g \in 1..NumOut |-> monthly_data.rows[g].Total_Amount])

ActiveMonths == {MonthOrd(df.rows[i].Date) : i \in 1..Len(df.rows)}

\* C6: the bucket sequence is strictly increasing in (year, month), whatever
\* the row order of the input.
C6_ChronologicalOrder ==
    monthly_data.called =>
        \A g \in 1..(NumOut - 1) : BucketMonth(g) < BucketMonth(g + 1)

\* Three months handed over latest first.
C6_Witness ==
    /\ monthly_data.called /\ NumOut = 3
    /\ MonthOrd(df.rows[1].Date) > MonthOrd(df.rows[2].Date)
    /\ MonthOrd(df.rows[2].Date) > MonthOrd(df.rows[3].Date)

\* C7 as stated: the bucket totals add up to the sum of all input amounts.
C7_Original == monthly_data.called => OutputTotalSum = InputAmountSum

\* C7 amended: each bucket's Total_Amount is the sum of Amount over the
\* transactions of its own year and month, rounded to 2 decimals, and every
\* transaction is counted in exactly one bucket; so the bucket totals add up
\* to the sum of all input amounts when every Amount has at most 2 decimals,
\* and differ from it by at most 0.005 per bucket otherwise.
C7_SumConservation ==
    monthly_data.called =>
        /\ \A g \in 1..NumOut :
              monthly_data.rows[g].Total_Amount
                  = Round2(RInt(AmountInMonth(df.rows, BucketMonth(g))))
        /\ SumSeq([g \in 1..NumOut |-> monthly_data.rows[g].Transaction_Count])
              = Len(df.rows)
        /\ (\A i \in 1..Len(df.rows) : df.rows[i].Amount % 10 = 0)
              => OutputTotalSum = InputAmountSum
        /\ Abs(OutputTotalSum - InputAmountSum) <= 5 * NumOut

\* Sub-cent amounts in two months: the rounded totals lose them.
C7_Witness ==
    /\ monthly_data.called /\ NumOut = 2
    /\ \E i \in 1..Len(df.rows) : df.rows[i].Amount % 10 # 0
    /\ OutputTotalSum # InputAmountSum

\* C8: one bucket per distinct (year, month) with a transaction and none for
\* the other months; Month_Num is 1, 2, ..., N in chronological order.
C8_MonthIndexDensity ==
    monthly_data.called =>
        /\ {BucketMonth(g) : g \in 1..NumOut} = ActiveMonths
        /\ NumOut = Cardinality(ActiveMonths)
        /\ \A g \in 1..NumOut : monthly_data.rows[g].Month_Num = g

\* November 2023 and February 2024 only: two buckets, indices 1 and 2.
C8_Witness ==
    /\ monthly_data.called /\ NumOut = 2
    /\ BucketMonth(2) = BucketMonth(1) + 3
    /\ Len(df.rows) = 3
    /\ monthly_data.rows[2].Month_Num = 2

\* (total[i] - total[i-1]) / total[i-1] * 100 in float arithmetic.
C9_Expected(prev, cur) == FMulPos(FDivInt(cur - prev, prev), RInt(100))

\* C9: MoM_Growth of bucket i >= 1 is (total[i] - total[i-1]) / total[i-1]
\* * 100 against the preceding bucket of the sequence, and null for the
\* first bucket.
C9_MoMGrowth ==
    monthly_data.called =>
        \A g \in 1..NumOut :
            monthly_data.rows[g].MoM_Growth =
                (IF g = 1 THEN FNaN
                 ELSE C9_Expected(monthly_data.rows[g - 1].Total_Amount,
                                  monthly_data.rows[g].Total_Amount))

\* A finite, non-zero growth across a calendar gap.
C9_Witness ==
    /\ monthly_data.called /\ NumOut >= 2
    /\ BucketMonth(2) > BucketMonth(1) + 1
    /\ monthly_data.rows[1].MoM_Growth = FNaN
    /\ monthly_data.rows[2].MoM_Growth.kind = "num"
    /\ monthly_data.rows[2].MoM_Growth.val = RInt(-200)

\* C10: an empty transaction table gives an empty bucket sequence and no
\* exception.
C10_EmptyInput ==
    (monthly_data.called /\ df.rows = <<>>) =>
        (~monthly_data.raised /\ monthly_data.rows = <<>>)

\* The empty table without columns, on which the body raises KeyError.
C10_Witness ==
    /\ monthly_data.called /\ df.rows = <<>> /\ df.columns = {}
    /\ preprocess_data_body(df).raised
    /\ monthly_data.rows = <<>>

(***************************************************************************)
(* calculate_comprehensive_metrics, main.py                                *)
(*                                                                         *)
(* A standard deviation is irrational in general.  The coefficient of      *)
(* variation is kept as its square (a rational), and the efficiency score  *)
(* 10 - 5*variance - |growth|/10 as a real of the form a + b*sqrt(v), on   *)
(* which comparison with a rational and rounding are exact.                *)
(***************************************************************************)
RAbs(r) == <<Abs(r[1]), r[2]>>
RNeg(r) == <<-r[1], r[2]>>
RSign(r) == IF r[1] > 0 THEN 1 ELSE IF r[1] < 0 THEN -1 ELSE 0

\* The real a + b*sqrt(v), v >= 0.
Surd(a, b, v) == [a |-> a, b |-> b, v |-> v]
SurdOfRat(r) == Surd(r, RInt(0), RInt(0))
SurdNeg(x) == Surd(RNeg(x.a), RNeg(x.b), x.v)

\* The sign of x - c for a surd x and a rational c.
SurdCmp(x, c) ==
    LET d == RSub(x.a, c)
        sd == RSign(d)
        sb == IF RIsZero(x.v) THEN 0 ELSE RSign(x.b)
        d2 == RMul(d, d)
        e2 == RMul(RMul(x.b, x.b), x.v)
    IN  IF sb = 0 THEN sd
        ELSE IF sd = 0 THEN sb
        ELSE IF sd = sb THEN sd
        ELSE IF RLess(e2, d2) THEN sd
        ELSE IF RLess(d2, e2) THEN sb
        ELSE 0

\* Floats whose finite values are surds.
SNum(x) == [kind |-> "num", val |-> x]
SNaN == [kind |-> "nan", val |-> SurdOfRat(RInt(0))]
SNegInf == [kind |-> "-inf", val |-> SurdOfRat(RInt(0))]

\* x < c, x > c, x >= c in float arithmetic (false for NaN).
SLess(x, c) == (x.kind = "num" /\ SurdCmp(x.val, c) < 0) \/ x.kind = "-inf"
SGreater(x, c) == x.kind = "num" /\ SurdCmp(x.val, c) > 0
SGeq(x, c) == x.kind = "num" /\ SurdCmp(x.val, c) >= 0

\* x > c and x < c for the floats of the growth columns (false for NaN).
FGreater(x, c) == (x.kind = "num" /\ RLess(c, x.val)) \/ x.kind = "inf"
FLess(x, c) == (x.kind = "num" /\ RLess(x.val, c)) \/ x.kind = "-inf"

\* The number of tenths nearest to the non-negative surd x, ties to even,
\* counted up from j.
RECURSIVE RoundTenthsFrom(_, _)
RoundTenthsFrom(x, j) ==
    LET c == SurdCmp(x, Rat(2 * j - 1, 20))
    IN  IF c > 0 \/ (c = 0 /\ j % 2 = 0) THEN RoundTenthsFrom(x, j + 1) ELSE j - 1

\* round(efficiency_score, 1); the result is held as a number of tenths.
py_round1(e) ==
    IF e.kind # "num" THEN [kind |-> e.kind, tenths |-> 0]
    ELSE [kind |-> "num",
          tenths |-> IF SurdCmp(e.val, RInt(0)) >= 0
                     THEN RoundTenthsFrom(e.val, 1)
                     ELSE -RoundTenthsFrom(SurdNeg(e.val), 1)]

\* min(10, x): Python keeps 10 unless x < 10 (so also when x is NaN).
py_min10(x) == IF SLess(x, RInt(10)) THEN x ELSE SNum(SurdOfRat(RInt(10)))

\* Variant: no lower clamp.
py_max0_Identity(y) == y

\* max(0, y): Python keeps 0 unless y > 0.
py_max0(y) == IF SGreater(y, RInt(0)) THEN y ELSE SNum(SurdOfRat(RInt(0)))

\* DataFrame.empty: no rows or no columns.
frame_empty_Never(frame) == FALSE

frame_empty(frame) == frame.rows = <<>> \/ frame.columns = {}

\* Variant: the last of the tied positions.
idxmax_Last(y) == CHOOSE i \in 1..Len(y) :
    /\ \A j \in 1..Len(y) : y[j] <= y[i]
    /\ \A j \in (i + 1)..Len(y) : y[j] < y[i]

\* Series.idxmax() / idxmin(): the first position of the maximum / minimum.
idxmax(y) == CHOOSE i \in 1..Len(y) :
    /\ \A j \in 1..Len(y) : y[j] <= y[i]
    /\ \A j \in 1..(i - 1) : y[j] < y[i]

idxmin(y) == CHOOSE i \in 1..Len(y) :
    /\ \A j \in 1..Len(y) : y[j] >= y[i]
    /\ \A j \in 1..(i - 1) : y[j] > y[i]

\* Timestamp.strftime('%B %Y'): the month and the year.
strftime_BY(ts) == [month |-> ts.month, year |-> ts.year]

\* Variant: growth against the second bucket instead of the last.
growth_rate_of_Second(y) ==
    IF Len(y) > 1
    THEN FMulPos(FDivInt(y[2] - y[1], y[1]), RInt(100))
    ELSE FNum(RInt(0))

\* ((iloc[-1] - iloc[0]) / iloc[0]) * 100 if len > 1 else 0
growth_rate_of(y) ==
    IF Len(y) > 1
    THEN FMulPos(FDivInt(y[Len(y)] - y[1], y[1]), RInt(100))
    ELSE FNum(RInt(0))

\* The square of Series.std() (ddof = 1) of at least two values.
sample_variance(y) ==
    LET m == np_mean(y)
    IN  RDiv(RSumSeq([i \in 1..Len(y) |->
                RMul(RSub(RInt(y[i]), m), RSub(RInt(y[i]), m))]),
             RInt(Len(y) - 1))

\* std() / mean() if mean() > 0 else 0; std() of one value is NaN.  The
\* finite value is held as its square `sq`.
variance_of(y) ==
    LET m == np_mean(y)
    IN  IF RLess(RInt(0), m)
        THEN (IF Len(y) < 2 THEN [kind |-> "nan", sq |-> RInt(0)]
              ELSE [kind |-> "num", sq |-> RDiv(sample_variance(y), RMul(m, m))])
        ELSE [kind |-> "num", sq |-> RInt(0)]

\* Variant: the growth penalty without abs().
efficiency_raw_Signed(variance, growth) ==
    IF variance.kind = "nan" \/ growth.kind = "nan" THEN SNaN
    ELSE IF growth.kind = "inf" THEN SNegInf
    ELSE IF growth.kind = "-inf" THEN SNum(SurdOfRat(RInt(10)))
    ELSE SNum(Surd(RSub(RInt(10), RDiv(growth.val, RInt(10))), RInt(-5), variance.sq))

\* 10 - (variance * 5) - (abs(growth_rate) / 10)
efficiency_raw(variance, growth) ==
    IF variance.kind = "nan" \/ growth.kind = "nan" THEN SNaN
    ELSE IF growth.kind \in {"inf", "-inf"} THEN SNegInf
    ELSE SNum(Surd(RSub(RInt(10), RDiv(RAbs(growth.val), RInt(10))),
                   RInt(-5), variance.sq))

\* Variant: the first comparison is >= 5.
trend_of_Inclusive(growth) ==
    IF FGreater(growth, RInt(5)) \/ growth = FNum(RInt(5)) THEN "Strong growth trend observed"
    ELSE IF FGreater(growth, RInt(0)) THEN "Moderate growth trend"
    ELSE IF FGreater(growth, RInt(-5)) THEN "Stable spending pattern"
    ELSE "Declining trend detected"

\* if growth_rate > 5 ... elif > 0 ... elif > -5 ... else
trend_of(growth) ==
    IF FGreater(growth, RInt(5)) THEN "Strong growth trend observed"
    ELSE IF FGreater(growth, RInt(0)) THEN "Moderate growth trend"
    ELSE IF FGreater(growth, RInt(-5)) THEN "Stable spending pattern"
    ELSE "Declining trend detected"

trend_icon_of(description) ==
    CASE description = "Strong growth trend observed" -> "chart-up"
      [] description = "Moderate growth trend" -> "arrow-up-right"
      [] description = "Stable spending pattern" -> "arrow-right"
      [] OTHER -> "chart-down"

\* if efficiency_score >= 8 ... elif >= 6 ... elif >= 4 ... else, on the
\* score before it is rounded.
efficiency_comment_of(e) ==
    IF SGeq(e, RInt(8)) THEN "Excellent spending control"
    ELSE IF SGeq(e, RInt(6)) THEN "Good expense management"
    ELSE IF SGeq(e, RInt(4)) THEN "Moderate efficiency, room for improvement"
    ELSE "Needs optimization attention"

MetricsReturned(snapshot) == [called |-> TRUE, raised |-> FALSE, snapshot |-> snapshot]
MetricsRaised == [called |-> TRUE, raised |-> TRUE, snapshot |-> <<>>]

calculate_comprehensive_metrics(mdf, d, category) ==
    IF frame_empty(mdf) THEN MetricsReturned(<<>>)
    ELSE IF "Total_Amount" \notin mdf.columns THEN MetricsRaised     \* KeyError
    ELSE IF mdf.rows = <<>> THEN MetricsRaised                       \* idxmax: ValueError
    ELSE IF "YearMonth" \notin mdf.columns THEN MetricsRaised        \* KeyError
    ELSE
        LET y == Column(mdf, "Total_Amount")
            total_spent == SumSeq(y)
            avg_monthly == np_mean(y)
            highest_month_idx == idxmax(y)
            lowest_month_idx == idxmin(y)
            growth_rate == growth_rate_of(y)
            variance == variance_of(y)
            efficiency_score == py_max0(py_min10(efficiency_raw(variance, growth_rate)))
            trend_description == trend_of(growth_rate)
            dates == Column(mdf, "YearMonth")
        IN  MetricsReturned(
              [total_spent |-> total_spent,
               avg_monthly |-> avg_monthly,
               highest_month_amount |-> y[highest_month_idx],
               highest_month_name |-> strftime_BY(dates[highest_month_idx]),
               highest_month_percentage |->
                   FMulPos(FDivInt(y[highest_month_idx], total_spent), RInt(100)),
               lowest_month_amount |-> y[lowest_month_idx],
               lowest_month_name |-> strftime_BY(dates[lowest_month_idx]),
               growth_rate |-> growth_rate,
               variance |-> variance,
               efficiency_score |-> py_round1(efficiency_score),
               trend_icon |-> trend_icon_of(trend_description),
               trend_description |-> trend_description,
               efficiency_comment |-> efficiency_comment_of(efficiency_score),
               transaction_count |-> Len(d.rows),
               period_start |-> dates[idxmin([i \in 1..Len(dates) |-> MonthOrd(dates[i])])],
               period_end |-> SeriesMax(dates),
               analysis_period |-> Len(mdf.rows)])

(***************************************************************************)
(* Inputs of the metrics specification: bucket tables of 0..MaxBuckets     *)
(* buckets whose totals reach the growth rates 5, 0 and -5 per cent, a     *)
(* zero first total, a zero and a negative total spend, and ties.          *)
(***************************************************************************)
MetricTotals == {-200, 0, 190, 200, 210, 400}

MetricTables ==
    {DataFrame({"YearMonth", "Total_Amount", "Month_Num"}, Buckets(cal, tot)) :
        cal \in CalendarChoices,
        tot \in UNION {[1..n -> MetricTotals] : n \in 0..MaxBuckets}}
    \cup {EmptyFrame}

\* The transaction table matters to the metrics by its length only.
MetricTransactions ==
    {TransactionTable({"Date", "Amount"}, "datetime64",
                      [i \in 1..n |-> [Date |-> Timestamp(2023, 11, 5), Amount |-> 1000]]) :
        n \in {0, MaxRows}}

InitMetrics ==
    /\ df \in MetricTransactions
    /\ monthly_data = NotCalled
    /\ monthly_df \in MetricTables
    /\ periods = [type |-> "int", val |-> 0]
    /\ forecast_main = NotCalled
    /\ forecast_backend = NotCalled
    /\ ReportsNotCalled
    /\ SessionNotStarted

CallMetrics ==
    /\ ~metrics.called
    /\ metrics' = calculate_comprehensive_metrics(monthly_df, df, "category")
    /\ UNCHANGED <<sessionVars, df, monthly_data, monthly_df, periods, forecast_main, forecast_backend,
                   seasonal_main, seasonal_backend, insights_main, insights_backend>>

NextMetrics == CallMetrics

SpecMetrics == InitMetrics /\ [][NextMetrics]_vars

(***************************************************************************)
(* Claims about calculate_comprehensive_metrics (checked under             *)
(* SpecMetrics).                                                           *)
(***************************************************************************)
SnapshotFields ==
    {"total_spent", "avg_monthly", "highest_month_amount", "highest_month_name",
     "highest_month_percentage", "lowest_month_amount", "lowest_month_name",
     "growth_rate", "variance", "efficiency_score", "trend_icon",
     "trend_description", "efficiency_comment", "transaction_count",
     "period_start", "period_end", "analysis_period"}

\* The metrics were computed from a non-empty bucket sequence.
MetricsOfBuckets == metrics.called /\ ~metrics.raised /\ NumBuckets >= 1

\* C11: on an empty bucket sequence calculate_comprehensive_metrics returns
\* an empty result without raising; on a non-empty one it returns a snapshot
\* holding every field.
C11_EmptyOrFull ==
    metrics.called =>
        /\ ~metrics.raised
        /\ NumBuckets = 0 => DOMAIN metrics.snapshot = {}
        /\ NumBuckets >= 1 => DOMAIN metrics.snapshot = SnapshotFields

\* An empty bucket table that has its columns.
C11_Witness ==
    /\ metrics.called /\ NumBuckets = 0
    /\ "Total_Amount" \in monthly_df.columns
    /\ metrics.snapshot = <<>>

\* C12: growth_rate is (total[last] - total[first]) / total[first] * 100
\* from 2 buckets on and 0 for one bucket; the buckets in between have no
\* influence.
C12_GrowthRate ==
    MetricsOfBuckets =>
        metrics.snapshot.growth_rate =
            (IF NumBuckets >= 2
             THEN FMulPos(FDivInt(BucketTotals[NumBuckets] - BucketTotals[1],
                                  BucketTotals[1]), RInt(100))
             ELSE FNum(RInt(0)))

\* Scenario A in shape: three buckets, the middle one the highest, -5 %.
C12_Witness ==
    /\ MetricsOfBuckets /\ NumBuckets = 3
    /\ BucketTotals = <<200, 400, 190>>
    /\ metrics.snapshot.growth_rate = FNum(RInt(-5))

\* C13: no numeric field of a snapshot is NaN or infinite, whatever the
\* non-empty bucket sequence (zero first total, zero total spend, a single
\* bucket).
C13_NoNaNOrInfinity ==
    MetricsOfBuckets =>
        /\ metrics.snapshot.growth_rate.kind = "num"
        /\ metrics.snapshot.variance.kind = "num"
        /\ metrics.snapshot.efficiency_score.kind = "num"
        /\ metrics.snapshot.highest_month_percentage.kind = "num"

\* The square of stddev(total) / mean(total), by the sums of the totals:
\* (N * Syy - Sy^2) / (N * (N - 1)) / (Sy / N)^2.
C14_VarianceSquared(y) ==
    LET N == Len(y)
        Sy == SumSeq(y)
        Syy == SumSeq([i \in 1..N |-> y[i] * y[i]])
    IN  Rat((N * Syy - Sy * Sy) * N, (N - 1) * Sy * Sy)

\* C14: variance is stddev(total) / mean(total) from 2 buckets on (stated
\* here for a positive mean), 0 for a single bucket and 0 when all totals
\* are equal.
C14_Variance ==
    MetricsOfBuckets =>
        /\ NumBuckets = 1 => metrics.snapshot.variance = [kind |-> "num", sq |-> RInt(0)]
        /\ (NumBuckets >= 2 /\ SumSeq(BucketTotals) > 0) =>
              metrics.snapshot.variance =
                  [kind |-> "num", sq |-> C14_VarianceSquared(BucketTotals)]
        /\ (\A i \in 1..NumBuckets : BucketTotals[i] = BucketTotals[1] /\ NumBuckets >= 2) =>
              metrics.snapshot.variance = [kind |-> "num", sq |-> RInt(0)]

\* clamp(0, 10, 10 - variance*5 - abs(growth_rate)/10) as Python evaluates
\* max(0, min(10, x)): 10 when x is NaN, 0 when x is -infinity.
C15_Clamp(variance, growth) ==
    IF variance.kind = "nan" \/ growth.kind = "nan" THEN SurdOfRat(RInt(10))
    ELSE IF growth.kind # "num" THEN SurdOfRat(RInt(0))
    ELSE LET x == Surd(RSub(RInt(10), RDiv(RAbs(growth.val), RInt(10))),
                       RInt(-5), variance.sq)
         IN  IF SurdCmp(x, RInt(0)) < 0 THEN SurdOfRat(RInt(0))
             ELSE IF SurdCmp(x, RInt(10)) > 0 THEN SurdOfRat(RInt(10))
             ELSE x

SnapshotClamp == C15_Clamp(metrics.snapshot.variance, metrics.snapshot.growth_rate)

\* C15 as stated: the score of the snapshot equals the clamped expression.
C15_Original ==
    MetricsOfBuckets =>
        /\ metrics.snapshot.efficiency_score.kind = "num"
        /\ SurdCmp(SnapshotClamp, Rat(metrics.snapshot.efficiency_score.tenths, 10)) = 0

\* C15 amended: the score of the snapshot equals the clamped expression
\* rounded to 1 decimal; it is 10 when all bucket totals are equal.
C15_EfficiencyScore ==
    MetricsOfBuckets =>
        /\ metrics.snapshot.efficiency_score =
              [kind |-> "num", tenths |-> RoundTenthsFrom(SnapshotClamp, 1)]
        /\ (\A i \in 1..NumBuckets : BucketTotals[i] = BucketTotals[1]) =>
              metrics.snapshot.efficiency_score.tenths = 100

\* A falling series whose clamped expression is no whole number of tenths.
C15_Witness ==
    /\ MetricsOfBuckets /\ NumBuckets >= 2
    /\ FLess(metrics.snapshot.growth_rate, RInt(0))
    /\ metrics.snapshot.efficiency_score.tenths \in 1..99
    /\ SurdCmp(SnapshotClamp, Rat(metrics.snapshot.efficiency_score.tenths, 10)) # 0

\* C16: 0 <= efficiency_score <= 10 for every non-empty bucket sequence.
C16_EfficiencyBounds ==
    MetricsOfBuckets =>
        /\ metrics.snapshot.efficiency_score.kind = "num"
        /\ metrics.snapshot.efficiency_score.tenths >= 0
        /\ metrics.snapshot.efficiency_score.tenths <= 100

\* A negative total in a series whose raw score is below 0.
C16_Witness ==
    /\ MetricsOfBuckets
    /\ \E i \in 1..NumBuckets : BucketTotals[i] < 0
    /\ SLess(efficiency_raw(metrics.snapshot.variance, metrics.snapshot.growth_rate), RInt(0))
    /\ metrics.snapshot.efficiency_score.tenths = 0

\* C17: the trend class follows from growth_rate alone: > 5 strong growth,
\* else > 0 moderate growth, else > -5 stable, else declining; so 5 is
\* moderate growth, 0 is stable and -5 is declining.
C17_TrendClass ==
    MetricsOfBuckets =>
        LET g == metrics.snapshot.growth_rate
            t == metrics.snapshot.trend_description
        IN  /\ t = "Strong growth trend observed" <=> FGreater(g, RInt(5))
            /\ t = "Moderate growth trend" <=>
                  (~FGreater(g, RInt(5)) /\ FGreater(g, RInt(0)))
            /\ t = "Stable spending pattern" <=>
                  (~FGreater(g, RInt(0)) /\ FGreater(g, RInt(-5)))
            /\ t = "Declining trend detected" <=> ~FGreater(g, RInt(-5))
            /\ g = FNum(RInt(5)) => t = "Moderate growth trend"
            /\ g = FNum(RInt(0)) => t = "Stable spending pattern"
            /\ g = FNum(RInt(-5)) => t = "Declining trend detected"

C17_Witness ==
    /\ MetricsOfBuckets
    /\ metrics.snapshot.growth_rate = FNum(RInt(5))
    /\ metrics.snapshot.trend_description = "Moderate growth trend"

\* The first position at which the totals take the value v.
FirstPositionOf(v) == CHOOSE i \in 1..NumBuckets :
    BucketTotals[i] = v /\ \A j \in 1..(i - 1) : BucketTotals[j] # v

BucketName(i) ==
    [month |-> monthly_df.rows[i].YearMonth.month,
     year |-> monthly_df.rows[i].YearMonth.year]

\* C18: the peak and trough fields are those of the bucket with the maximum
\* and the minimum Total_Amount, the chronologically first one on a tie.
C18_PeakAndTrough ==
    MetricsOfBuckets =>
        LET hi == SeqMax(BucketTotals)
            lo == SeqMin(BucketTotals)
        IN  /\ metrics.snapshot.highest_month_amount = hi
            /\ metrics.snapshot.highest_month_name = BucketName(FirstPositionOf(hi))
            /\ metrics.snapshot.lowest_month_amount = lo
            /\ metrics.snapshot.lowest_month_name = BucketName(FirstPositionOf(lo))

\* The maximum and the minimum are both taken twice.
C18_Witness ==
    /\ MetricsOfBuckets /\ NumBuckets = 4
    /\ BucketTotals[1] = BucketTotals[3] /\ BucketTotals[2] = BucketTotals[4]
    /\ BucketTotals[1] > BucketTotals[2]
    /\ metrics.snapshot.highest_month_name = BucketName(1)
    /\ metrics.snapshot.lowest_month_name = BucketName(2)

(***************************************************************************)
(* calculate_seasonal_trends, main.py and backend/forecast_model.py        *)
(*                                                                         *)
(* The functions receive the caller's bucket table by reference.  A call   *)
(* is modelled by the pair of what it returns and the table as the caller  *)
(* finds it afterwards.  A returned text is the template of the f-string   *)
(* with the month numbers that fill it.                                    *)
(***************************************************************************)
SeasonalText(text) == [called |-> TRUE, raised |-> FALSE, text |-> text, peak |-> 0, low |-> 0]
SeasonalPeakLow(text, peak, low) ==
    [called |-> TRUE, raised |-> FALSE, text |-> text, peak |-> peak, low |-> low]

AfterCall(result, frame) == [result |-> result, frame |-> frame]

\* monthly_df['Month'] = monthly_df['YearMonth'].dt.month, on the object
\* the caller passed.
assign_Month(frame) ==
    DataFrame(frame.columns \cup {"Month"},
              [i \in 1..Len(frame.rows) |->
                  [YearMonth |-> frame.rows[i].YearMonth,
                   Total_Amount |-> frame.rows[i].Total_Amount,
                   Month_Num |-> frame.rows[i].Month_Num,
                   Month |-> frame.rows[i].YearMonth.month]])

\* groupby('Month')['Total_Amount'].mean(): the months present, and the mean
\* of a month's totals.
MonthsPresent(rows) == {rows[i].YearMonth.month : i \in 1..Len(rows)}

month_mean(rows, m) ==
    LET idx == {i \in 1..Len(rows) : rows[i].YearMonth.month = m}
        RECURSIVE total(_)
        total(S) == IF S = {} THEN 0
                    ELSE LET i == CHOOSE i \in S : TRUE
                         IN  rows[i].Total_Amount + total(S \ {i})
    IN  Rat(total(idx), Cardinality(idx))

\* Series.idxmax() / idxmin() over the group means, the index sorted by month.
patterns_idxmax(rows) == CHOOSE m \in MonthsPresent(rows) :
    /\ \A k \in MonthsPresent(rows) : ~RLess(month_mean(rows, m), month_mean(rows, k))
    /\ \A k \in MonthsPresent(rows) : k < m => RLess(month_mean(rows, k), month_mean(rows, m))

patterns_idxmin(rows) == CHOOSE m \in MonthsPresent(rows) :
    /\ \A k \in MonthsPresent(rows) : ~RLess(month_mean(rows, k), month_mean(rows, m))
    /\ \A k \in MonthsPresent(rows) : k < m => RLess(month_mean(rows, m), month_mean(rows, k))

\* Variant: the seasonal analysis starts one bucket earlier.
MinSeasonBuckets_Five == 6 - 1

MinSeasonBuckets == 6
MinSeasonMonths == 3

\* The body shared by the two implementations, which differ in their texts.
seasonal_trends(mdf, insufficient, peaklow, limited, unavailable) ==
    IF Len(mdf.rows) < MinSeasonBuckets THEN AfterCall(SeasonalText(insufficient), mdf)
    ELSE IF "YearMonth" \notin mdf.columns THEN AfterCall(SeasonalText(unavailable), mdf)
    ELSE IF "Total_Amount" \notin mdf.columns
         THEN AfterCall(SeasonalText(unavailable), assign_Month(mdf))
    ELSE AfterCall(
            IF Cardinality(MonthsPresent(mdf.rows)) >= MinSeasonMonths
            THEN SeasonalPeakLow(peaklow, patterns_idxmax(mdf.rows), patterns_idxmin(mdf.rows))
            ELSE SeasonalText(limited),
            assign_Month(mdf))

calculate_seasonal_trends(monthly_df_arg) ==
    seasonal_trends(monthly_df_arg,
        "Insufficient data for seasonal analysis",
        "Peak in {months[peak_month-1]}, Lowest in {months[low_month-1]}",
        "Limited seasonal pattern detected",
        "Seasonal analysis unavailable")

backend_calculate_seasonal_trends(monthly_data_arg) ==
    seasonal_trends(monthly_data_arg,
        "We're still learning your patterns.",
        "We noticed you tend to spend most in {months[peak_month]} and least in {months[low_month]}.",
        "Keep tracking your expenses - we're starting to see some monthly patterns emerge.",
        "Looking for patterns in your monthly spending...")

(***************************************************************************)
(* advanced_ml_analysis, main.py                                           *)
(*                                                                         *)
(* The coefficient of variation std()/mean() is a float: NaN below two     *)
(* buckets, NaN or infinite on a zero mean, negative on a negative mean.   *)
(* A finite value is held as its sign and its square.                      *)
(***************************************************************************)
CVNum(sign, sq) == [kind |-> "num", sign |-> sign, sq |-> sq]
CVNaN == [kind |-> "nan", sign |-> 0, sq |-> RInt(0)]
CVInf == [kind |-> "inf", sign |-> 1, sq |-> RInt(0)]

\* Total_Amount.std() / Total_Amount.mean()
std_over_mean(y) ==
    IF Len(y) < 2 THEN CVNaN
    ELSE LET m == np_mean(y)
             v == sample_variance(y)
         IN  IF RIsZero(m) THEN (IF RIsZero(v) THEN CVNaN ELSE CVInf)
             ELSE IF RIsZero(v) THEN CVNum(0, RInt(0))
             ELSE CVNum(RSign(m), RDiv(v, RMul(m, m)))

\* volatility < c and volatility <= c for a rational c > 0 (false for NaN).
CVLess(x, c) == x.kind = "num" /\ (x.sign <= 0 \/ RLess(x.sq, RMul(c, c)))
CVLeq(x, c) == x.kind = "num" /\ (x.sign <= 0 \/ ~RLess(RMul(c, c), x.sq))

\* x + y for floats of the growth columns.
FAdd(x, y) ==
    IF x.kind = "nan" \/ y.kind = "nan" THEN FNaN
    ELSE IF x.kind = "num" THEN (IF y.kind = "num" THEN FNum(RAdd(x.val, y.val)) ELSE y)
    ELSE IF y.kind = "num" \/ y.kind = x.kind THEN x
    ELSE FNaN

\* Series.mean(): NaN entries are skipped; NaN if nothing is left.
RECURSIVE FSumSkipNa(_)
FSumSkipNa(s) ==
    IF s = <<>> THEN FNum(RInt(0))
    ELSE IF Head(s).kind = "nan" THEN FSumSkipNa(Tail(s))
    ELSE FAdd(Head(s), FSumSkipNa(Tail(s)))

series_mean(s) ==
    LET n == Cardinality({i \in 1..Len(s) : s[i].kind # "nan"})
    IN  IF n = 0 THEN FNaN
        ELSE LET t == FSumSkipNa(s)
             IN  IF t.kind = "num" THEN FNum(RDiv(t.val, RInt(n))) ELSE t

\* f"{x:.1f}": the float printed with one decimal, held as a number of tenths.
format_1f(x) ==
    IF x.kind = "num"
    THEN [kind |-> "num", tenths |-> RoundHalfEven(RMul(x.val, RInt(10)))]
    ELSE [kind |-> x.kind, tenths |-> 0]

InsightsReturned(insights) == [called |-> TRUE, raised |-> FALSE, insights |-> insights]

Message(text) == [text |-> text]
MessageAbout(text, category) == [text |-> text, category |-> category]
MessageWith(text, x) == [text |-> text, value |-> format_1f(x)]

\* df.groupby('Expense Head')['Amount'].sum(): the categories in sorted
\* order and the sum of a category's amounts.
ExpenseHeads == <<"Rent", "Travel">>

category_sum(rows, c) ==
    SumSeq([i \in 1..Len(rows) |-> IF rows[i]["Expense Head"] = c THEN rows[i].Amount ELSE 0])

CategoriesPresent(rows) ==
    {k \in 1..Len(ExpenseHeads) : \E i \in 1..Len(rows) : rows[i]["Expense Head"] = ExpenseHeads[k]}

category_idxmax(rows) ==
    LET P == CategoriesPresent(rows)
        k == CHOOSE k \in P :
                /\ \A j \in P : category_sum(rows, ExpenseHeads[j]) <= category_sum(rows, ExpenseHeads[k])
                /\ \A j \in P : j < k =>
                      category_sum(rows, ExpenseHeads[j]) < category_sum(rows, ExpenseHeads[k])
    IN  ExpenseHeads[k]

patterns_insight(y) ==
    LET volatility == std_over_mean(y)
    IN  IF CVLess(volatility, Rat(2, 10))
        THEN Message("Stable spending patterns with low volatility. Excellent budget predictability.")
        ELSE IF CVLess(volatility, Rat(4, 10))
        THEN Message("Moderate spending variability. Consider implementing monthly budget controls.")
        ELSE Message("High spending volatility detected. Immediate budget optimization recommended.")

forecasting_insight(y) ==
    LET growth_trend == FMulPos(series_mean(pct_change(y, 1)), RInt(100))
    IN  IF FGreater(growth_trend, RInt(5))
        THEN MessageWith("Strong upward trend ({growth_trend:.1f}% monthly growth). Plan for increasing budgets.",
                         growth_trend)
        ELSE IF FGreater(growth_trend, RInt(0))
        THEN MessageWith("Moderate growth trend ({growth_trend:.1f}%). Maintain current planning approach.",
                         growth_trend)
        ELSE MessageWith("Declining trend ({growth_trend:.1f}%). Opportunity for cost optimization.",
                         growth_trend)

\* efficiency = 10 - std()/mean() * 5; efficiency >= 8 is volatility <= 0.4
\* and efficiency >= 6 is volatility <= 0.8.
risk_insight(y) ==
    LET volatility == std_over_mean(y)
    IN  IF CVLeq(volatility, Rat(4, 10))
        THEN Message("Low financial risk. Strong expense management practices.")
        ELSE IF CVLeq(volatility, Rat(8, 10))
        THEN Message("Moderate risk. Implement additional monitoring controls.")
        ELSE Message("High risk detected. Immediate strategic review required.")

\* The insights of the except branch.
insights_fallback ==
    [patterns |-> Message("Pattern analysis in progress..."),
     optimization |-> Message("Optimization insights being generated..."),
     forecasting |-> Message("Forecast intelligence loading..."),
     risk |-> Message("Risk assessment initializing...")]

\* The keys the try block sets, and the value of each.
advanced_ml_analysis_body(mdf, d) ==
    LET y == Column(mdf, "Total_Amount")
        keys == (IF Len(mdf.rows) >= 3 THEN {"patterns"} ELSE {})
                \cup (IF "Expense Head" \in d.columns /\ CategoriesPresent(d.rows) # {}
                      THEN {"optimization"} ELSE {})
                \cup (IF Len(mdf.rows) >= 4 THEN {"forecasting"} ELSE {})
                \cup {"risk"}
    IN  [k \in keys |->
            CASE k = "patterns" -> patterns_insight(y)
              [] k = "optimization" ->
                    MessageAbout("Focus optimization efforts on '{top_category}' - your highest spending category.",
                                 category_idxmax(d.rows))
              [] k = "forecasting" -> forecasting_insight(y)
              [] k = "risk" -> risk_insight(y)]

\* A missing column raises KeyError inside the try block; nothing is
\* assigned to either table.
advanced_ml_analysis(monthly_df_arg, df_arg) ==
    AfterCall(
        IF \/ "Total_Amount" \notin monthly_df_arg.columns
           \/ ("Expense Head" \in df_arg.columns /\ "Amount" \notin df_arg.columns)
        THEN InsightsReturned(insights_fallback)
        ELSE InsightsReturned(advanced_ml_analysis_body(monthly_df_arg, df_arg)),
        monthly_df_arg)

(***************************************************************************)
(* advanced_ml_analysis, backend/forecast_model.py                         *)
(***************************************************************************)
\* numerator / denominator of the manual trend: the least-squares slope of
\* y over the positions 0..n-1 (n >= 4, so the denominator is not 0).
backend_trend(y) ==
    LET n == Len(y)
        y_mean == np_mean(y)
        dx(i) == Rat(2 * (i - 1) - (n - 1), 2)
        numerator == RSumSeq([i \in 1..n |-> RMul(dx(i), RSub(RInt(y[i]), y_mean))])
        denominator == RSumSeq([i \in 1..n |-> RMul(dx(i), dx(i))])
    IN  IF RIsZero(denominator) THEN RInt(0) ELSE RDiv(numerator, denominator)

\* mean() * 0.1
TrendShare == Rat(1, 10)

MinTrendBuckets == 4

backend_patterns_insight(y) ==
    IF Len(y) >= MinTrendBuckets
    THEN LET trend == backend_trend(y)
             bar == RMul(np_mean(y), TrendShare)
         IN  IF RLess(bar, trend)
             THEN Message("Your expenses are growing steadily month-over-month.")
             ELSE IF RLess(trend, RNeg(bar))
             THEN Message("Great news! Your expenses are trending downward, showing good cost control.")
             ELSE Message("Your spending is quite stable month-to-month, which is excellent for budget planning.")
    ELSE Message("We're still learning your spending patterns.")

\* category_stats.max() / category_stats.sum() * 100
top_percentage_of(rows) ==
    LET sums == {category_sum(rows, ExpenseHeads[k]) : k \in CategoriesPresent(rows)}
        max == CHOOSE v \in sums : \A w \in sums : w <= v
    IN  FMulPos(FDivInt(max, SumSeq([i \in 1..Len(rows) |-> rows[i].Amount])), RInt(100))

backend_optimization_insight(d) ==
    IF "Expense Head" \in d.columns
    THEN LET top_percentage == top_percentage_of(d.rows)
         IN  IF FGreater(top_percentage, RInt(40))
             THEN [text |-> "{top_category} is your biggest expense area ({top_percentage:.1f}%).",
                   category |-> category_idxmax(d.rows),
                   value |-> format_1f(top_percentage)]
             ELSE Message("Your spending is well distributed.")
    ELSE Message("Regular expense reviews can help identify savings opportunities.")

backend_forecasting_insight(y) ==
    IF Len(y) >= 3
    THEN IF CVLess(std_over_mean(y), Rat(2, 10))
         THEN Message("Your spending is very predictable!")
         ELSE Message("Your spending varies month-to-month.")
    ELSE Message("We're building a better understanding of your future expenses as we collect more data.")

\* volatility = std()/mean() if len > 1 else 0;
\* efficiency_score = max(0, 10 - volatility * 8), 0 when volatility is NaN;
\* efficiency_score >= 8 is volatility <= 0.25, >= 6 is volatility <= 0.5.
backend_risk_insight(y) ==
    LET volatility == IF Len(y) > 1 THEN std_over_mean(y) ELSE CVNum(0, RInt(0))
    IN  IF CVLeq(volatility, Rat(25, 100))
        THEN Message("Excellent expense management! Your spending patterns are stable and well-controlled.")
        ELSE IF CVLeq(volatility, Rat(5, 10))
        THEN Message("Good expense control. Some monthly variation, but overall well managed.")
        ELSE Message("Higher spending variation detected.")

\* The insights of the except branch.
backend_insights_fallback ==
    [patterns |-> Message("Analyzing your spending patterns..."),
     optimization |-> Message("Looking for money-saving opportunities..."),
     forecasting |-> Message("Preparing future expense insights..."),
     risk |-> Message("Checking your expense stability...")]

\* KeyError on a missing column that is read (Total_Amount is read from 2
\* buckets on), ValueError of idxmax() on an empty groupby result.
backend_advanced_ml_analysis(monthly_data_arg, df_arg) ==
    AfterCall(
        IF \/ ("Total_Amount" \notin monthly_data_arg.columns /\ Len(monthly_data_arg.rows) >= 2)
           \/ ("Expense Head" \in df_arg.columns
                 /\ ("Amount" \notin df_arg.columns \/ CategoriesPresent(df_arg.rows) = {}))
        THEN InsightsReturned(backend_insights_fallback)
        ELSE LET y == IF "Total_Amount" \in monthly_data_arg.columns
                      THEN Column(monthly_data_arg, "Total_Amount")
                      ELSE [i \in 1..Len(monthly_data_arg.rows) |-> 0]
             IN  InsightsReturned(
                    [patterns |-> backend_patterns_insight(y),
                     optimization |-> backend_optimization_insight(df_arg),
                     forecasting |-> backend_forecasting_insight(y),
                     risk |-> backend_risk_insight(y)]),
        monthly_data_arg)

(***************************************************************************)
(* The narrative functions applied, in any order and each at most once, to *)
(* one bucket table and one transaction table: up to MaxSeasonBuckets      *)
(* buckets on consecutive months and, from MinSeasonBuckets buckets on,    *)
(* also on every fourth month (3 months of the year) and on every sixth    *)
(* month (2 months of the year); tables that lack a column; transactions   *)
(* with and without an 'Expense Head' column.                              *)
(***************************************************************************)
MaxSeasonBuckets == 6

NarrativeTotals == {0, 100, 150}

ConsecutiveMonths == <<2023 * 12 + 9, 1>>

NarrativeCalendars == {ConsecutiveMonths, <<2023 * 12, 4>>, <<2023 * 12, 6>>}

CalendarsFor(n) ==
    IF n >= MinSeasonBuckets THEN NarrativeCalendars ELSE {ConsecutiveMonths}

\* The calendars with repeated months of the year carry two totals only.
TotalsFor(cal) == IF cal = ConsecutiveMonths THEN NarrativeTotals ELSE {100, 150}

NarrativeTables ==
    UNION {{DataFrame({"YearMonth", "Total_Amount", "Month_Num"}, Buckets(cal, tot)) :
               tot \in [1..n -> TotalsFor(cal)]} :
           <<n, cal>> \in {<<n, cal>> \in (0..MaxSeasonBuckets) \X NarrativeCalendars :
                              cal \in CalendarsFor(n)}}

\* Tables that lack a column, and the table without columns.
DeficientTables ==
    {DataFrame(cols, Buckets(cal, [i \in 1..n |-> 100])) :
        cols \in ColumnSets, cal \in NarrativeCalendars, n \in {0, 1, 2, MaxSeasonBuckets}}
    \cup {EmptyFrame}

ExpenseRow(head, amount) ==
    [c \in {"Date", "Amount", "Expense Head"} |->
        CASE c = "Date" -> Timestamp(2023, 11, 5)
          [] c = "Amount" -> amount
          [] c = "Expense Head" -> head]

PlainTransactions == TransactionTable({"Date", "Amount"}, "datetime64", <<>>)

NarrativeTransactions ==
    {PlainTransactions,
     TransactionTable({"Date", "Amount", "Expense Head"}, "datetime64", <<>>),
     TransactionTable({"Date", "Amount", "Expense Head"}, "datetime64",
                      <<ExpenseRow("Travel", 1000), ExpenseRow("Rent", 4),
                        ExpenseRow("Rent", 1000)>>),
     TransactionTable({"Date", "Amount", "Expense Head"}, "datetime64",
                      <<ExpenseRow("Travel", 1000), ExpenseRow("Rent", 1000),
                        ExpenseRow("Rent", 1000)>>),
     TransactionTable({"Date", "Amount", "Expense Head"}, "datetime64",
                      <<ExpenseRow("Travel", 0), ExpenseRow("Rent", 0)>>),
     TransactionTable({"Date", "Expense Head"}, "datetime64",
                      <<ExpenseRow("Travel", 1000)>>)}

\* Every bucket table with the plain transactions, and every transaction
\* table with the deficient tables and the tables of the shortest lengths.
InitNarrative ==
    /\ \/ df = PlainTransactions /\ monthly_df \in NarrativeTables
       \/ df \in NarrativeTransactions
            /\ monthly_df \in DeficientTables
                 \cup {t \in NarrativeTables : Len(t.rows) <= 2}
    /\ monthly_data = NotCalled
    /\ periods = [type |-> "int", val |-> 0]
    /\ forecast_main = NotCalled
    /\ forecast_backend = NotCalled
    /\ ReportsNotCalled
    /\ SessionNotStarted

CallSeasonalMain ==
    /\ ~seasonal_main.called
    /\ LET after == calculate_seasonal_trends(monthly_df)
       IN  /\ seasonal_main' = after.result
           /\ monthly_df' = after.frame
    /\ UNCHANGED <<sessionVars, df, monthly_data, periods, forecast_main, forecast_backend,
                   metrics, seasonal_backend, insights_main, insights_backend>>

CallSeasonalBackend ==
    /\ ~seasonal_backend.called
    /\ LET after == backend_calculate_seasonal_trends(monthly_df)
       IN  /\ seasonal_backend' = after.result
           /\ monthly_df' = after.frame
    /\ UNCHANGED <<sessionVars, df, monthly_data, periods, forecast_main, forecast_backend,
                   metrics, seasonal_main, insights_main, insights_backend>>

CallInsightsBackend ==
    /\ ~insights_backend.called
    /\ LET after == backend_advanced_ml_analysis(monthly_df, df)
       IN  /\ insights_backend' = after.result
           /\ monthly_df' = after.frame
    /\ UNCHANGED <<sessionVars, df, monthly_data, periods, forecast_main, forecast_backend,
                   metrics, seasonal_main, seasonal_backend, insights_main>>

CallInsightsMain ==
    /\ ~insights_main.called
    /\ LET after == advanced_ml_analysis(monthly_df, df)
       IN  /\ insights_main' = after.result
           /\ monthly_df' = after.frame
    /\ UNCHANGED <<sessionVars, df, monthly_data, periods, forecast_main, forecast_backend,
                   metrics, seasonal_main, seasonal_backend, insights_backend>>

NextNarrative ==
    CallSeasonalMain \/ CallSeasonalBackend \/ CallInsightsMain \/ CallInsightsBackend

SpecNarrative == InitNarrative /\ [][NextNarrative]_vars

(***************************************************************************)
(* Claims about the narrative functions (checked under SpecNarrative).     *)
(***************************************************************************)
\* C20: no call of calculate_seasonal_trends or advanced_ml_analysis changes
\* the bucket table it is given: the table has the same columns and values
\* after the call as before, for every bucket count.
C20_NoSideEffects == [][monthly_df' = monthly_df]_vars

\* The mean Total_Amount of the buckets that fall in month-of-year m.
C21_MeanOfMonth(m) ==
    LET hits == [i \in 1..NumBuckets |->
                    IF monthly_df.rows[i].YearMonth.month = m THEN 1 ELSE 0]
        sums == [i \in 1..NumBuckets |-> hits[i] * BucketTotals[i]]
    IN  Rat(SumSeq(sums), SumSeq(hits))

C21_Months == {monthly_df.rows[i].YearMonth.month : i \in 1..NumBuckets}

\* What C21 asks of one returned text, given the texts of the implementation.
C21_Holds(res, notEnough, peakLow, weaker) ==
    res.called =>
        /\ ~res.raised
        /\ FullColumns(monthly_df) =>
            /\ NumBuckets < 6 => res.text = notEnough
            /\ (NumBuckets >= 6 /\ Cardinality(C21_Months) >= 3) =>
                /\ res.text = peakLow
                /\ res.peak \in C21_Months /\ res.low \in C21_Months
                /\ \A m \in C21_Months :
                      /\ ~RLess(C21_MeanOfMonth(res.peak), C21_MeanOfMonth(m))
                      /\ ~RLess(C21_MeanOfMonth(m), C21_MeanOfMonth(res.low))
            /\ (NumBuckets >= 6 /\ Cardinality(C21_Months) < 3) => res.text = weaker

\* C21: calculate_seasonal_trends (both implementations) answers with the
\* not-enough-data text below 6 buckets; from 6 buckets on it names the
\* months of the year with the highest and the lowest mean Total_Amount
\* exactly when at least 3 months of the year occur, and gives the weaker
\* text otherwise; it never raises.
C21_SeasonalTrends ==
    /\ C21_Holds(seasonal_main,
                 "Insufficient data for seasonal analysis",
                 "Peak in {months[peak_month-1]}, Lowest in {months[low_month-1]}",
                 "Limited seasonal pattern detected")
    /\ C21_Holds(seasonal_backend,
                 "We're still learning your patterns.",
                 "We noticed you tend to spend most in {months[peak_month]} and least in {months[low_month]}.",
                 "Keep tracking your expenses - we're starting to see some monthly patterns emerge.")

\* Six buckets on three months of the year, two differing totals per month:
\* both implementations name a peak and a different trough.
C21_Witness ==
    /\ seasonal_main.called /\ seasonal_backend.called
    /\ NumBuckets = 6 /\ Cardinality(C21_Months) = 3
    /\ BucketTotals[1] # BucketTotals[4]
    /\ seasonal_main.peak # seasonal_main.low
    /\ seasonal_backend.peak = seasonal_main.peak
    /\ seasonal_backend.text # seasonal_main.text

\* The texts that say an insight is not available (yet).
C22_NotAvailableTexts ==
    {"Pattern analysis in progress...", "Optimization insights being generated...",
     "Forecast intelligence loading...", "Risk assessment initializing...",
     "Analyzing your spending patterns...", "Looking for money-saving opportunities...",
     "Preparing future expense insights...", "Checking your expense stability...",
     "We're still learning your spending patterns.",
     "We're building a better understanding of your future expenses as we collect more data."}

C22_Holds(res) ==
    (res.called /\ NumBuckets < 2) =>
        /\ ~res.raised
        /\ "risk" \in DOMAIN res.insights
        /\ \A k \in DOMAIN res.insights \cap {"patterns", "forecasting", "risk"} :
              res.insights[k].text \in C22_NotAvailableTexts

\* C22: with fewer than 2 buckets the insights of advanced_ml_analysis that
\* rest on the monthly series, the 'risk' entry in particular, are
\* not-available texts: no risk or stability verdict is given (both
\* implementations).
C22_NoVerdictWithoutData == C22_Holds(insights_main) /\ C22_Holds(insights_backend)

\* The try block of each implementation runs to its end.
TableComplete == FullColumns(monthly_df)
MainTryCompletes ==
    TableComplete /\ ("Expense Head" \in df.columns => "Amount" \in df.columns)
BackendTryCompletes ==
    TableComplete /\ ("Expense Head" \in df.columns => ("Amount" \in df.columns /\ df.rows # <<>>))

\* The class the fitted slope gives against 10% of the mean monthly total.
C23_SlopeClass ==
    LET slope == OLS_Slope(BucketTotals)
        tenth == Rat(SumSeq(BucketTotals), 10 * NumBuckets)
    IN  IF NumBuckets < 4 THEN "learning"
        ELSE IF RLess(tenth, slope) THEN "growing"
        ELSE IF RLess(slope, RNeg(tenth)) THEN "declining"
        ELSE "stable"

\* The class a 'patterns' text expresses.
C23_ClassOfText(text) ==
    CASE text = "Your expenses are growing steadily month-over-month." -> "growing"
      [] text = "Great news! Your expenses are trending downward, showing good cost control." -> "declining"
      [] text = "Your spending is quite stable month-to-month, which is excellent for budget planning." -> "stable"
      [] text = "Stable spending patterns with low volatility. Excellent budget predictability." -> "stable"
      [] text = "We're still learning your spending patterns." -> "learning"
      [] OTHER -> "other"

C23_BySlope(res) ==
    /\ "patterns" \in DOMAIN res.insights
    /\ C23_ClassOfText(res.insights.patterns.text) = C23_SlopeClass

\* C23: in both implementations the 'patterns' insight is chosen by the
\* fitted slope against 10% of the mean monthly total from 4 buckets on
\* (growing, declining, stable) and is the still-learning text below.
C23_PatternsBySlope ==
    /\ (insights_main.called /\ MainTryCompletes) => C23_BySlope(insights_main)
    /\ (insights_backend.called /\ BackendTryCompletes) => C23_BySlope(insights_backend)

\* The tier the coefficient of variation of the totals falls in, with the
\* boundaries 0.2 and 0.4 (for at least 2 buckets of positive mean).
C24_TierOfTotals ==
    LET sq == C14_VarianceSquared(BucketTotals)
    IN  IF RLess(sq, Rat(4, 100)) THEN "mild"
        ELSE IF RLess(sq, Rat(16, 100)) THEN "middle"
        ELSE "severe"

\* The tiers a volatility-keyed text may stand for.
C24_TiersOfText(text) ==
    CASE text = "Low financial risk. Strong expense management practices." -> {"mild"}
      [] text = "Moderate risk. Implement additional monitoring controls." -> {"middle"}
      [] text = "High risk detected. Immediate strategic review required." -> {"severe"}
      [] text = "Excellent expense management! Your spending patterns are stable and well-controlled." -> {"mild"}
      [] text = "Good expense control. Some monthly variation, but overall well managed." -> {"middle"}
      [] text = "Higher spending variation detected." -> {"severe"}
      [] text = "Your spending is very predictable!" -> {"mild"}
      [] text = "Your spending varies month-to-month." -> {"middle", "severe"}
      [] OTHER -> {}

C24_Defined == NumBuckets >= 2 /\ SumSeq(BucketTotals) > 0

\* C24: the risk insights of both implementations and the backend's
\* forecasting insight are tiered by the coefficient of variation with the
\* boundaries 0.2 and 0.4: below 0.2 the mildest text, from 0.4 on the most
\* severe, the middle one in between.
C24_VolatilityTiers ==
    /\ (insights_main.called /\ MainTryCompletes /\ C24_Defined) =>
          C24_TierOfTotals \in C24_TiersOfText(insights_main.insights.risk.text)
    /\ (insights_backend.called /\ BackendTryCompletes /\ C24_Defined) =>
          /\ C24_TierOfTotals \in C24_TiersOfText(insights_backend.insights.risk.text)
          /\ NumBuckets >= 3 =>
                C24_TierOfTotals \in C24_TiersOfText(insights_backend.insights.forecasting.text)

(***************************************************************************)
(* Further claims about calculate_comprehensive_metrics (SpecMetrics).     *)
(***************************************************************************)
\* C25: the efficiency_comment of a snapshot agrees with the
\* efficiency_score of the same snapshot: excellent iff score >= 8, good iff
\* 6 <= score < 8, moderate iff 4 <= score < 6, needs-optimization iff
\* score < 4.
C25_CommentAgreesWithScore ==
    MetricsOfBuckets =>
        LET tenths == metrics.snapshot.efficiency_score.tenths
            comment == metrics.snapshot.efficiency_comment
        IN  /\ comment = "Excellent spending control" <=> tenths >= 80
            /\ comment = "Good expense management" <=> (tenths >= 60 /\ tenths < 80)
            /\ comment = "Moderate efficiency, room for improvement" <=>
                  (tenths >= 40 /\ tenths < 60)
            /\ comment = "Needs optimization attention" <=> tenths < 40

(***************************************************************************)
(* The forecasts and the metrics of one bucket table, on consecutive       *)
(* months or with calendar gaps, for every positive horizon.               *)
(***************************************************************************)
GapTotals == {0, 100, 400}

GapTables ==
    {DataFrame({"YearMonth", "Total_Amount", "Month_Num"}, Buckets(cal, tot)) :
        cal \in CalendarChoices,
        tot \in UNION {[1..n -> GapTotals] : n \in 0..MaxBuckets}}

InitGaps ==
    /\ df = PlainTransactions
    /\ monthly_data = NotCalled
    /\ monthly_df \in GapTables
    /\ periods \in {[type |-> "int", val |-> v] : v \in 1..MaxPeriods}
    /\ forecast_main = NotCalled
    /\ forecast_backend = NotCalled
    /\ ReportsNotCalled
    /\ SessionNotStarted

NextGaps == CallForecastMain \/ CallForecastBackend \/ CallMetrics

SpecGaps == InitGaps /\ [][NextGaps]_vars

\* The table of the state with its totals put on the calendar cal.
Regapped(cal) == DataFrame(monthly_df.columns, Buckets(cal, BucketTotals))

\* C26: the Forecast values (both implementations, every horizon) and the
\* growth_rate are those of the same totals on any other calendar: the same
\* totals on consecutive months and on months with gaps give the same
\* values.
C26_CalendarIndependence ==
    \A cal \in CalendarChoices :
        /\ forecast_main.called =>
              ForecastValues(forecast_expenses(Regapped(cal), periods))
                  = ForecastValues(forecast_main)
        /\ forecast_backend.called =>
              ForecastValues(backend_forecast_expenses(Regapped(cal), periods))
                  = ForecastValues(forecast_backend)
        /\ MetricsOfBuckets =>
              calculate_comprehensive_metrics(Regapped(cal), df, "category").snapshot.growth_rate
                  = metrics.snapshot.growth_rate

\* A table with calendar gaps, a curved series, all three results present.
C26_Witness ==
    /\ forecast_main.called /\ forecast_backend.called /\ MetricsOfBuckets
    /\ NumBuckets >= 3
    /\ MonthOrd(monthly_df.rows[2].YearMonth) - MonthOrd(monthly_df.rows[1].YearMonth) = 2
    /\ BucketTotals[2] - BucketTotals[1] # BucketTotals[3] - BucketTotals[2]
    /\ Len(forecast_backend.rows) = periods.val /\ periods.val >= 2
    /\ forecast_main.rows[1].Forecast # forecast_main.rows[2].Forecast
    /\ metrics.snapshot.growth_rate.kind = "num"
    /\ ~RIsZero(metrics.snapshot.growth_rate.val)

(***************************************************************************)
(* Claims relating the two forecast implementations (SpecForecast).        *)
(***************************************************************************)
\* C27: for at least 3 buckets and a positive horizon the two
\* implementations of forecast_expenses return the same number of entries,
\* the same Forecast values in the same order, and entry k labelled with
\* the same calendar month.
C27_ImplementationsAgree ==
    (forecast_main.called /\ forecast_backend.called
        /\ ValidForecastInput /\ NumBuckets >= 3) =>
        /\ ~forecast_main.raised /\ ~forecast_backend.raised
        /\ Len(forecast_main.rows) = Len(forecast_backend.rows)
        /\ Len(forecast_main.rows) = periods.val
        /\ \A k \in 1..Len(forecast_main.rows) :
              /\ forecast_main.rows[k].Forecast = forecast_backend.rows[k].Forecast
              /\ forecast_main.rows[k].Date.year = forecast_backend.rows[k].Date.year
              /\ forecast_main.rows[k].Date.month = forecast_backend.rows[k].Date.month

\* Three buckets on a curve, a horizon over the turn of the year, forecasts
\* that differ from step to step.
C27_Witness ==
    /\ forecast_main.called /\ forecast_backend.called
    /\ ValidForecastInput /\ NumBuckets = 3 /\ periods.val = MaxPeriods
    /\ BucketTotals[2] - BucketTotals[1] # BucketTotals[3] - BucketTotals[2]
    /\ forecast_backend.rows[1].Forecast # forecast_backend.rows[2].Forecast
    /\ forecast_backend.rows[1].Date.day # forecast_main.rows[1].Date.day
    /\ \E k \in 1..(MaxPeriods - 1) :
          forecast_main.rows[k].Date.year < forecast_main.rows[k + 1].Date.year

C28_Monotone(res) ==
    (res.called /\ ValidForecastInput /\ res.rows # <<>>) =>
        LET v == ForecastValues(res)
            rising == ~RLess(OLS_Slope(BucketTotals), RInt(0))
        IN  \A k \in 1..(Len(v) - 1) :
                /\ rising => v[k] <= v[k + 1]
                /\ ~rising => v[k] >= v[k + 1]
                /\ (~rising /\ v[k] = 0) => v[k + 1] = 0

\* C28: every non-empty forecast series (both implementations) is
\* non-decreasing in the step when the fitted slope is >= 0 and
\* non-increasing when it is < 0; with a negative slope every value after a
\* value clamped to 0 is 0.
C28_ForecastMonotone == C28_Monotone(forecast_main) /\ C28_Monotone(forecast_backend)

\* A falling series whose forecast is positive first and clamped afterwards.
C28_Witness ==
    /\ forecast_main.called /\ forecast_backend.called /\ ValidForecastInput
    /\ Len(forecast_main.rows) = 3 /\ Len(forecast_backend.rows) = 3
    /\ RLess(OLS_Slope(BucketTotals), RInt(0))
    /\ forecast_main.rows[1].Forecast > 0
    /\ forecast_main.rows[2].Forecast = 0 /\ forecast_main.rows[3].Forecast = 0
    /\ RLess(OLS_Line(BucketTotals, 2), RInt(0))

(***************************************************************************)
(* The session: initialize_session_state, render_sidebar,                  *)
(* handle_pdf_generation and main, main.py.  One run of main() is a        *)
(* sequence of steps; st.session_state outlives the run.  A widget with a  *)
(* key keeps its value in st.session_state; a button's value is True in    *)
(* the run its click starts and False in every other run.                  *)
(***************************************************************************)
\* st.session_state[key] = value
Assign(s, key, value) ==
    [k \in DOMAIN s \cup {key} |-> IF k = key THEN value ELSE s[k]]

\* if key not in st.session_state: st.session_state[key] = value
SetDefault(s, key, value) == IF key \in DOMAIN s THEN s ELSE Assign(s, key, value)

\* st.session_state.get(key, default)
Get(s, key, default) == IF key \in DOMAIN s THEN s[key] ELSE default

\* del st.session_state[key] for every key of K
Delete(s, K) == [k \in DOMAIN s \ K |-> s[k]]

DefaultForecastPeriods == 6
DefaultAnalysisDepth == "Detailed Analysis"

initialize_session_state(s) ==
    LET s1 == SetDefault(s, "data_loaded", FALSE)
        s2 == SetDefault(s1, "current_category", None)
        s3 == SetDefault(s2, "forecast_periods", DefaultForecastPeriods)
        s4 == SetDefault(s3, "show_forecast_help", FALSE)
    IN  SetDefault(s4, "analysis_depth", DefaultAnalysisDepth)

\* What load_excel_data returns: a dict from sheet name to a table with the
\* columns Date and Amount and at least one row, or {} when the file cannot
\* be read.
SheetNames == <<"Marketing", "Travel">>

Sheet(amounts) ==
    TransactionTable({"Date", "Amount"}, "datetime64",
        [i \in 1..Len(amounts) |->
            [Date |-> Timestamp(2023, 10 + i, 5), Amount |-> amounts[i]]])

LoadedData ==
    {[c \in {} |-> Sheet(<<>>)],
     [c \in {"Travel"} |-> Sheet(<<1000>>)],
     [c \in {"Marketing", "Travel"} |->
        IF c = "Travel" THEN Sheet(<<0, 1000>>) ELSE Sheet(<<1000, 4>>)]}

UploadedFiles == {None, "expenses.xlsx"}
SliderValues == {3, 6, 12}
AnalysisDepths == {"Quick Overview", "Detailed Analysis", "Strategic Planning"}

\* st.selectbox(options=list(data.keys()), index=0): the stored choice while
\* it is an option, else the first option, None without options.
selectbox(s, data) ==
    IF "category_selector" \in DOMAIN s /\ s["category_selector"] \in DOMAIN data
    THEN s["category_selector"]
    ELSE IF DOMAIN data = {} THEN None
    ELSE SheetNames[CHOOSE i \in 1..Len(SheetNames) :
            /\ SheetNames[i] \in DOMAIN data
            /\ \A j \in 1..(i - 1) : SheetNames[j] \notin DOMAIN data]

\* render_sidebar up to the quick actions: the data are loaded and the
\* three configuration widgets are drawn.
sidebar_configuration(s, data) ==
    LET uploaded_file == Get(s, "file_uploader", None)
        s1 == Assign(s, "file_uploader", uploaded_file)
        s2 == Assign(s1, "data_loaded", TRUE)
        s3 == Assign(s2, "data", data)
        category == selectbox(s3, s3["data"])
        s4 == Assign(s3, "category_selector", category)
        forecast_periods == Get(s4, "forecast_slider", DefaultForecastPeriods)
        s5 == Assign(s4, "forecast_slider", forecast_periods)
        s6 == Assign(s5, "forecast_periods", forecast_periods)
        analysis_depth == Get(s6, "analysis_depth_radio", DefaultAnalysisDepth)
        s7 == Assign(s6, "analysis_depth_radio", analysis_depth)
    IN  Assign(s7, "analysis_depth", analysis_depth)

\* st.button(..., key=key)
button(s, key) == Get(s, key, FALSE)

\* Variant: the reset spares the forecast horizon as well.
reset_kept_keys_Periods == {"data_loaded", "data", "forecast_periods"}

\* The keys 'Reset Analysis' does not delete.
reset_kept_keys == {"data_loaded", "data"}

\* Variant: the flag is cleared only when a report was produced.
flag_after_pdf_OnSuccess(pdf_buffer) == pdf_buffer = None

\* st.session_state.generate_pdf = False, whatever the handler returned.
flag_after_pdf(pdf_buffer) == FALSE

PreprocessedColumns ==
    {"YearMonth", "Total_Amount", "Average_Amount", "Transaction_Count",
     "Min_Amount", "Max_Amount", "Month_Num", "YoY_Growth", "MoM_Growth"}

\* handle_pdf_generation: "raised" when an exception leaves the function,
\* "generate" when generate_comprehensive_pdf is reached (it hands back a
\* buffer or raises, and the handler turns the exception into None), None
\* on the paths that return None before it.
handle_pdf_generation(data, category, s) ==
    IF category \notin DOMAIN data THEN None
    ELSE
        LET monthly == preprocess_data(data[category])
            mdf == DataFrame(IF monthly.rows = <<>> THEN {} ELSE PreprocessedColumns,
                             monthly.rows)
        IN  IF frame_empty(mdf) THEN None
            ELSE IF calculate_comprehensive_metrics(mdf, data[category], category).raised
                 THEN "raised"
            ELSE IF forecast_expenses(mdf, [type |-> "int", val |-> s["forecast_periods"]]).raised
                 THEN "raised"
            ELSE "generate"

WidgetKeys == {"file_uploader", "category_selector", "forecast_slider",
               "analysis_depth_radio", "pdf_report_btn", "reset_btn",
               "final_pdf_download"}

ButtonKeys == {"pdf_report_btn", "reset_btn", "final_pdf_download"}

\* The new values the user can give to a widget drawn in the previous run.
WidgetInputs(s, key) ==
    CASE key = "file_uploader" -> UploadedFiles
      [] key = "category_selector" -> DOMAIN s["data"]
      [] key = "forecast_slider" -> SliderValues
      [] key = "analysis_depth_radio" -> AnalysisDepths
      [] OTHER -> {TRUE}

\* The session state a run starts with: the widget the user acted on has
\* its new value and every button that was not pressed is False.
after_event(s, key, value) ==
    [k \in DOMAIN s |->
        IF k = key THEN value
        ELSE IF k \in ButtonKeys THEN FALSE
        ELSE s[k]]

InitSession ==
    /\ df = EmptyFrame
    /\ monthly_data = NotCalled
    /\ monthly_df = EmptyFrame
    /\ periods = [type |-> "int", val |-> 0]
    /\ forecast_main = NotCalled
    /\ forecast_backend = NotCalled
    /\ ReportsNotCalled
    /\ SessionNotStarted

analysisVars == <<df, monthly_data, monthly_df, periods, forecast_main, forecast_backend,
                  reportVars>>

\* The browser opens the page: the first run of main() starts.
OpenPage ==
    /\ pc = "not started"
    /\ pc' = "initialize_session_state"
    /\ run' = RunOf("open", None, <<>>)
    /\ UNCHANGED <<session_state, analysisVars>>

\* The user acts on a widget of the page: the next run of main() starts.
UserEvent ==
    /\ pc = "idle"
    /\ \E key \in WidgetKeys \cap DOMAIN session_state :
         \E value \in WidgetInputs(session_state, key) :
            /\ session_state' = after_event(session_state, key, value)
            /\ run' = RunOf(key, value, <<>>)
    /\ pc' = "initialize_session_state"
    /\ UNCHANGED analysisVars

InitializeSessionState ==
    /\ pc = "initialize_session_state"
    /\ session_state' = initialize_session_state(session_state)
    /\ pc' = "render_sidebar"
    /\ UNCHANGED <<run, analysisVars>>

\* render_sidebar, the data and the configuration; main() returns when the
\* sidebar has no data to show.
RenderSidebar ==
    /\ pc = "render_sidebar"
    /\ \E data \in LoadedData :
          session_state' = sidebar_configuration(session_state, data)
    /\ pc' = IF session_state'["data_loaded"] THEN "quick_actions" ELSE "idle"
    /\ UNCHANGED <<run, analysisVars>>

\* render_sidebar, the two buttons.  'Reset Analysis' ends the run with
\* st.rerun(): main() starts again.
QuickActions ==
    /\ pc = "quick_actions"
    /\ LET s0 == Assign(Assign(session_state, "pdf_report_btn",
                               button(session_state, "pdf_report_btn")),
                        "reset_btn", button(session_state, "reset_btn"))
           s1 == IF s0["pdf_report_btn"] THEN Assign(s0, "generate_pdf", TRUE) ELSE s0
           removed == DOMAIN s1 \ reset_kept_keys
       IN  IF s1["reset_btn"]
           THEN /\ session_state' = Delete(s1, removed)
                /\ run' = RunOf("rerun", None, [k \in removed |-> s1[k]])
                /\ pc' = "initialize_session_state"
           ELSE /\ session_state' = s1
                /\ run' = run
                /\ pc' = "handle_pdf"
    /\ UNCHANGED analysisVars

\* main(), the PDF request.  An exception that leaves handle_pdf_generation
\* ends the run where it stands.
HandlePdf ==
    /\ pc = "handle_pdf"
    /\ IF Get(session_state, "generate_pdf", FALSE)
       THEN LET handled == handle_pdf_generation(session_state["data"],
                                                 session_state["category_selector"],
                                                 session_state)
            IN  /\ run' = [run EXCEPT !.pdf_invoked = TRUE]
                /\ IF handled = "raised"
                   THEN /\ session_state' = session_state
                        /\ pc' = "idle"
                   ELSE /\ \E pdf_buffer \in IF handled = "generate"
                                              THEN {"buffer", None} ELSE {None} :
                              LET s1 == IF pdf_buffer # None
                                        THEN Assign(session_state, "final_pdf_download", FALSE)
                                        ELSE session_state
                              IN  session_state' =
                                      Assign(s1, "generate_pdf", flag_after_pdf(pdf_buffer))
                        /\ pc' = "tabs"
       ELSE /\ UNCHANGED <<session_state, run>>
            /\ pc' = "tabs"
    /\ UNCHANGED analysisVars

\* main(), the four tabs: they read the session state and end the run.
RenderTabs ==
    /\ pc = "tabs"
    /\ pc' = "idle"
    /\ UNCHANGED <<session_state, run, analysisVars>>

NextSession ==
    \/ OpenPage
    \/ UserEvent
    \/ InitializeSessionState
    \/ RenderSidebar
    \/ QuickActions
    \/ HandlePdf
    \/ RenderTabs

SpecSession == InitSession /\ [][NextSession]_vars

C30_ResetStep ==
    (pc = "quick_actions" /\ button(session_state, "reset_btn")) =>
        /\ DOMAIN session_state' = {"data_loaded", "data"}
        /\ session_state'["data_loaded"] = session_state["data_loaded"]
        /\ session_state'["data"] = session_state["data"]
        /\ pc' = "initialize_session_state"

C30_RerunStep ==
    /\ (pc = "initialize_session_state" /\ run.event = "rerun") =>
            /\ session_state'["current_category"] = None
            /\ session_state'["forecast_periods"] = 6
            /\ session_state'["show_forecast_help"] = FALSE
            /\ session_state'["analysis_depth"] = "Detailed Analysis"
            /\ session_state'["data_loaded"] = session_state["data_loaded"]
            /\ session_state'["data"] = session_state["data"]
    /\ run'.event = "rerun" => "generate_pdf" \notin DOMAIN session_state'

\* C30: the step of 'Reset Analysis' leaves the keys data_loaded and data
\* with their values and removes every other key of the session state; in
\* the run that follows, initialize_session_state sets current_category to
\* None, forecast_periods to 6, show_forecast_help to False and
\* analysis_depth to 'Detailed Analysis', and generate_pdf is not set.
C30_ResetAnalysis == [][C30_ResetStep /\ C30_RerunStep]_vars

\* A reset that removed a horizon of 12, the deepest analysis and the PDF
\* flag; the run after it starts from the defaults.
C30_Witness ==
    /\ pc = "render_sidebar"
    /\ run.event = "rerun"
    /\ "generate_pdf" \in DOMAIN run.removed
    /\ "final_pdf_download" \in DOMAIN run.removed
    /\ run.removed["forecast_periods"] = 12
    /\ run.removed["analysis_depth"] = "Strategic Planning"
    /\ session_state["forecast_periods"] = 6
    /\ session_state["analysis_depth"] = "Detailed Analysis"
    /\ DOMAIN session_state["data"] # {}

====
